---- MODULE Spec2Model ----
\* Peer provisioning of the exvpn-api server: ClientService.create_client and
\* delete_client, the setup_server endpoint, and the AWGService operations on
\* the live configuration document that they call.
EXTENDS Integers, Sequences, FiniteSets, TLC

\* ------------------------------------------------------------------ bounds
\* number of client keypairs (and row ids) that are generated
MaxPeers == 2
\* number of server keypairs that are generated
MaxSetups == 2
\* number of concurrent request handlers
NumProcs == 1
\* number of request handlers running at once when callers do not serialize
NumConcurrent == 2
\* largest number of peer stanzas of a document handed to the document functions
MaxStanzas == 3
\* number of concurrent callers of HostService.read_file / write_file
NumFileProcs == 3
\* number of tokens one write or read system call transfers
WriteChunk == 16
\* the timeout of wait_for_container_ready, in seconds (30 in the source)
WaitTimeout == 3
\* longest time, in seconds, one poll and its sleep of one second take
MaxPollTime == 2
\* width of the modelled address space (addresses 0 .. 2^AddrBits - 1)
AddrBits == 4
\* length of the lists of reserved addresses given to the allocator
MaxReserved == 2
\* longest value, and largest number of members, of a configuration document
\* handed to the link codec
MaxText == 1
MaxMembers == 2
\* largest number of engine clients constructed in the life of the process
MaxClients == 3

PeerIds == 1..MaxPeers

\* ------------------------------------------------- text as token sequences
\* A text is a sequence of tokens; every token is a string.  Whitespace,
\* separators and section markers are tokens of their own, so that the
\* str.strip / split / "in" / splitlines calls of the code are computed on
\* positions of the text and not on a parsed structure.
NL == "\n"
SP == " "
WS == {NL, SP}

RECURSIVE lstrip(_)
lstrip(s) == IF s # <<>> /\ Head(s) \in WS THEN lstrip(Tail(s)) ELSE s

RECURSIVE rstrip(_)
rstrip(s) ==
    IF s # <<>> /\ s[Len(s)] \in WS THEN rstrip(SubSeq(s, 1, Len(s) - 1)) ELSE s

strip(s) == lstrip(rstrip(s))

MatchAt(s, sub, i) == SubSeq(s, i, i + Len(sub) - 1) = sub

\* Python's "sub in s"
contains(s, sub) == \E i \in 1..(Len(s) - Len(sub) + 1) : MatchAt(s, sub, i)

\* position of the leftmost occurrence of sub in s, 0 when there is none
find(s, sub) ==
    IF contains(s, sub)
    THEN CHOOSE i \in 1..(Len(s) - Len(sub) + 1) :
             /\ MatchAt(s, sub, i)
             /\ \A j \in 1..(i - 1) : ~MatchAt(s, sub, j)
    ELSE 0

\* str.split(sep)
RECURSIVE split(_, _)
split(s, sep) ==
    LET i == find(s, sep)
    IN  IF i = 0 THEN <<s>>
        ELSE <<SubSeq(s, 1, i - 1)>> \o split(SubSeq(s, i + Len(sep), Len(s)), sep)

\* str.split(sep, 1)
split1(s, sep) ==
    LET i == find(s, sep)
    IN  IF i = 0 THEN <<s>>
        ELSE <<SubSeq(s, 1, i - 1), SubSeq(s, i + Len(sep), Len(s))>>

\* str.splitlines(): no empty last line
splitlines(s) ==
    LET parts == split(s, <<NL>>)
    IN  IF parts[Len(parts)] = <<>> THEN SubSeq(parts, 1, Len(parts) - 1) ELSE parts

\* sep.join(parts)
RECURSIVE join(_, _)
join(parts, sep) ==
    IF parts = <<>> THEN <<>>
    ELSE IF Len(parts) = 1 THEN parts[1]
    ELSE parts[1] \o sep \o join(Tail(parts), sep)

startswith(s, pre) == Len(s) >= Len(pre) /\ SubSeq(s, 1, Len(pre)) = pre

RECURSIVE Pow2(_)
Pow2(n) == IF n = 0 THEN 1 ELSE 2 * Pow2(n - 1)

\* ------------------------------------------------------ addresses and keys
Addrs == 0..(Pow2(AddrBits) - 1)

\* str(IPv4Address(a))
int_to_ip(a) == "10.8.0." \o ToString(a)

\* IPv4Address(text) succeeds
validate_ip(text) == Len(text) = 1 /\ \E a \in Addrs : int_to_ip(a) = text[1]

\* int(IPv4Address(text))
ip_to_int(text) == CHOOSE a \in Addrs : int_to_ip(a) = text[1]

\* base64 text of the public key, the private key and the pre-shared key of
\* the i-th generated client keypair; all keys have the same length
PublicKeyOf(i) == <<"pub" \o ToString(i)>>
PrivateKeyOf(i) == <<"priv" \o ToString(i)>>
PskOf(i) == <<"psk" \o ToString(i)>>

\* output of "wg genkey" / "wg pubkey" of the n-th server key generation
ServerPrivateKeyOf(n) == <<"spriv" \o ToString(n)>>
ServerPublicKeyOf(n) == <<"spub" \o ToString(n)>>

\* ------------------------------------------- AWGService: document functions
PEER_MARK == "[Peer]"

Assign(name, value) == <<name, SP, "=", SP>> \o value

\* AWGService._get_server_ip: network = IPv4Network(subnet, strict=False);
\* (str(next(network.hosts())), network.prefixlen).  A subnet is given as
\* [addr, plen]; strict=False masks the host bits of addr.
NetworkSize(subnet) == Pow2(AddrBits - subnet.plen)
NetworkAddress(subnet) == subnet.addr - (subnet.addr % NetworkSize(subnet))
BroadcastAddress(subnet) == NetworkAddress(subnet) + NetworkSize(subnet) - 1

\* IPv4Network.hosts(), ascending: all addresses but the network and the
\* broadcast address; both addresses of a /31; the one address of a /32
hosts(subnet) ==
    LET n == NetworkAddress(subnet)
        b == BroadcastAddress(subnet)
    IN  IF subnet.plen >= AddrBits - 1
        THEN [i \in 1..NetworkSize(subnet) |-> n + i - 1]
        ELSE [i \in 1..(NetworkSize(subnet) - 2) |-> n + i]

_get_server_ip(subnet) == int_to_ip(hosts(subnet)[1])

\* ip_utils.get_next_available_ip(subnet, existing_ips): the first host of
\* the subnet that is not among the valid addresses of existing_ips (a
\* sequence of texts); "ValueError" when there is none
get_next_available_ip(subnet, existing_ips) ==
    LET existing == {ip_to_int(existing_ips[i]) :
                       i \in {j \in 1..Len(existing_ips) : validate_ip(existing_ips[j])}}
        h == hosts(subnet)
        free == {i \in 1..Len(h) : h[i] \notin existing}
    IN  IF free = {} THEN "ValueError"
        ELSE int_to_ip(h[CHOOSE i \in free : \A j \in free : i <= j])

\* AWGService.calculate_next_ip: the outcomes of the call
\* get_next_available_ip(subnet, existing_ips, [server_ip]).  The callee
\* declares two positional parameters, so the call as written raises
\* TypeError; the other outcome is the callee's result with the third
\* argument, the reserved server address, counted among the existing ones.
calculate_next_ip(subnet, existing_ips) ==
    { "TypeError",
      get_next_available_ip(subnet, existing_ips \o <<(<<_get_server_ip(subnet)>>)>>) }

\* AWGService._build_server_config
_build_server_config(server_private_key, server_ip, prefix, server_port) ==
    <<"[Interface]", NL>>
    \o Assign("PrivateKey", server_private_key) \o <<NL>>
    \o Assign("Address", <<server_ip, "/", prefix>>) \o <<NL>>
    \o Assign("ListenPort", <<server_port>>) \o <<NL>>

\* variant of _build_peer_block: AllowedIPs carries the bare address
_build_peer_block_no_mask(public_key, client_ip, psk) ==
    <<PEER_MARK, NL>>
    \o Assign("PublicKey", public_key) \o <<NL>>
    \o Assign("PresharedKey", psk) \o <<NL>>
    \o Assign("AllowedIPs", <<client_ip>>) \o <<NL>>

\* AWGService._build_peer_block
_build_peer_block(public_key, client_ip, psk) ==
    <<PEER_MARK, NL>>
    \o Assign("PublicKey", public_key) \o <<NL>>
    \o Assign("PresharedKey", psk) \o <<NL>>
    \o Assign("AllowedIPs", <<client_ip, "/", "32">>) \o <<NL>>

\* variant of AppendPeer: the stanza follows the stripped content directly
AppendPeer_glued(content, public_key, client_ip, psk) ==
    strip(content) \o _build_peer_block(public_key, client_ip, psk) \o <<NL>>

\* the text add_client_peer writes: content.strip() + "\n\n" + peer_block + "\n"
AppendPeer(content, public_key, client_ip, psk) ==
    strip(content) \o <<NL, NL>> \o _build_peer_block(public_key, client_ip, psk) \o <<NL>>

\* variant of _remove_peer_block: the sections are reassembled without the
\* filter on the public key
_remove_peer_block_unfiltered(content, public_key) ==
    LET sections == split(content, <<NL, PEER_MARK>>)
        header == strip(sections[1])
        peers == [i \in 1..(Len(sections) - 1) |-> <<PEER_MARK>> \o sections[i + 1]]
        kept_peers == [i \in 1..Len(peers) |-> strip(peers[i])]
        result == IF kept_peers # <<>>
                  THEN header \o <<NL, NL>> \o join(kept_peers, <<NL, NL>>)
                  ELSE header
    IN  IF Len(sections) = 1 THEN content ELSE strip(result) \o <<NL>>

\* AWGService._remove_peer_block
_remove_peer_block(content, public_key) ==
    LET sections == split(content, <<NL, PEER_MARK>>)
        header == strip(sections[1])
        peers == [i \in 1..(Len(sections) - 1) |-> <<PEER_MARK>> \o sections[i + 1]]
        kept == SelectSeq(peers, LAMBDA peer : ~contains(peer, Assign("PublicKey", public_key)))
        kept_peers == [i \in 1..Len(kept) |-> strip(kept[i])]
        result == IF kept_peers # <<>>
                  THEN header \o <<NL, NL>> \o join(kept_peers, <<NL, NL>>)
                  ELSE header
    IN  IF Len(sections) = 1 THEN content ELSE strip(result) \o <<NL>>

\* variant of LinePeerIp: the prefix length is not cut off
LinePeerIp_with_mask(rawline) ==
    LET line == strip(rawline)
        parts == split1(line, <<"=">>)
        ip_part == strip(split1(strip(parts[2]), <<",">>)[1])
    IN  IF startswith(line, <<"AllowedIPs">>) /\ Len(parts) = 2 THEN ip_part ELSE <<>>

\* the address text of one line of the document, <<>> when the line is
\* skipped (AWGService._extract_peer_ips, the body of the loop)
LinePeerIp(rawline) ==
    LET line == strip(rawline)
        parts == split1(line, <<"=">>)
        ip_part == strip(split1(strip(parts[2]), <<",">>)[1])
        ip == strip(split1(ip_part, <<"/">>)[1])
    IN  IF startswith(line, <<"AllowedIPs">>) /\ Len(parts) = 2 THEN ip ELSE <<>>

\* AWGService._extract_peer_ips
_extract_peer_ips(content) ==
    LET lines == splitlines(content)
        found == [i \in 1..Len(lines) |-> LinePeerIp(lines[i])]
    IN  SelectSeq(found, LAMBDA ip : ip # <<>>)

\* the public keys that "awg-quick strip" + "awg syncconf" read from the
\* document: the value of the PublicKey line of each [Peer] section
SectionPublicKey(section) ==
    LET lines == splitlines(section)
        keys == SelectSeq(lines, LAMBDA l : startswith(strip(l), <<"PublicKey">>))
    IN  IF keys = <<>> THEN <<>> ELSE strip(split1(strip(keys[1]), <<"=">>)[2])

DocumentPeerKeys(content) ==
    LET sections == split(content, <<NL, PEER_MARK>>)
    IN  [i \in 1..(Len(sections) - 1) |-> SectionPublicKey(sections[i + 1])]

\* --------------------------------------------------------------- the state
VARIABLES
    server_config,    \* rows of table server_config (the singleton row or none)
    clients,          \* rows of table clients (the PeerRecords)
    config_file,      \* the live document at awg_config_path: [exists, content]
    iface,            \* the running interface: [up, peers]
    iptables_rules,   \* number of times the NAT/forwarding rules were appended
    minio,            \* object keys present in the bucket
    next_peer,        \* client keypairs / row ids generated so far
    next_server_key,  \* server keypairs generated so far
    awg_server_endpoint, \* the setting awg_server_endpoint
    row_delete_raised,   \* history: a row deletion of table clients has raised
    docker,           \* the container engine: [available, image, status], and
                      \* where the devices of the container matter, [.., tun]
    host_files,       \* the directory of the document: [inodes, target, temps]
    _docker_client,   \* module global _docker_client: 0 (None) or a client instance
    closes,           \* per client instance made: the calls of its close()
    container_tmp,    \* /tmp/awg_sync.conf exists in the container
    pc,               \* per handler: the await it is suspended at
    local             \* per handler: the local variables of the running call

vars == <<server_config, clients, config_file, iface, iptables_rules, minio,
          next_peer, next_server_key, awg_server_endpoint, row_delete_raised,
          docker, host_files, _docker_client, closes, container_tmp, pc, local>>

\* the subnets and the port a setup request may carry
Subnets == {[addr |-> 1, plen |-> AddrBits - 2], [addr |-> 9, plen |-> AddrBits - 3]}
ServerPort == "51820"
ContainerName == "amneziawg"

\* the engine with the image present and the container running, and the
\* directory of the document with no file in it
DockerReady == [available |-> TRUE, image |-> TRUE, status |-> "running"]
NoFiles == [inodes |-> <<>>, target |-> 0, temps |-> <<>>]

NoRow == [id |-> 0, client_public_key |-> <<>>, client_ip |-> "", config_minio_key |-> <<>>]
\* models.py: the identifier of the singleton row of table server_config
SINGLETON_SERVER_CONFIG_ID == "00000000-0000-0000-0000-000000000001"

NoServer == [id |-> SINGLETON_SERVER_CONFIG_ID, status |-> "not_configured",
             awg_subnet_ip |-> [addr |-> 0, plen |-> 0], server_public_key |-> <<>>,
             server_private_key |-> <<>>, container_name |-> ""]

\* MinIOClient.upload_config: config_key = f"configs/{unique_identifier}.conf"
\* with unique_identifier f"{client.id}_awg" / f"{client.id}_amnezia"
ConfigKey(id, kind) == <<"configs/", id, kind, ".conf">>

InitLocal ==
    [op |-> "", client |-> NoRow, server |-> NoServer, peer |-> 0, next_ip |-> "",
     content |-> <<>>, handler |-> 0, exc |-> "", errors |-> <<>>,
     awg_config_key |-> <<>>, amnezia_config_key |-> <<>>, server_key |-> 0,
     result |-> "", document0 |-> <<>>, log |-> <<>>, existing_ips |-> <<>>,
     started_after |-> {}, before |-> <<>>, before2 |-> <<>>, last |-> <<"", <<>>>>,
     last2 |-> <<"", <<>>>>, appended |-> <<>>, extracted |-> FALSE,
     temp_path |-> 0, fd |-> 0, data |-> <<>>, elapsed |-> 0, status |-> "",
     config |-> <<>>, encoded_string |-> <<>>, sent |-> <<>>, decoded |-> <<>>,
     docker_client |-> 0, epoch |-> 0,
     tun_check |-> "", interface_status |-> "", status_after |-> "",
     exit_code |-> 0, stdout |-> "", stderr |-> "", error_msg |-> <<>>]

\* the table server_config a process may find when it starts: no row, or the
\* singleton row with a NULL public key or a NULL container name (both
\* columns are nullable)
InitialServerConfigs ==
    { {},
      {[NoServer EXCEPT !.server_private_key = <<"spriv0">>, !.container_name = ContainerName]},
      {[NoServer EXCEPT !.server_private_key = <<"spriv0">>, !.server_public_key = <<"spub0">>]} }

Init ==
    /\ server_config \in InitialServerConfigs
    /\ clients = {}
    /\ config_file = [exists |-> FALSE, content |-> <<>>]
    /\ iface = [up |-> FALSE, peers |-> {}]
    /\ iptables_rules = 0
    /\ minio = {}
    /\ next_peer = 0
    /\ next_server_key = 0
    /\ awg_server_endpoint \in {"", "vpn.example.org"}
    /\ row_delete_raised = FALSE
    /\ docker = DockerReady
    /\ host_files = NoFiles
    /\ _docker_client = 0
    /\ closes = <<>>
    /\ container_tmp = FALSE
    /\ pc = [p \in 1..NumProcs |-> "idle"]
    /\ local = [p \in 1..NumProcs |-> InitLocal]

\* the request handlers
Procs == DOMAIN pc

\* no call is in progress: every handler is idle or has returned
Quiescent == \A q \in Procs : pc[q] \in {"idle", "done"}

\* callers serialize the provisioning calls of a server: a call starts only
\* when no other call is in progress and every response has been delivered
MayStart(p) == \A q \in Procs : pc[q] = "idle"

Log(p, step, outcome) == Append(local[p].log, <<step, outcome>>)

\* the call of handler p continues at label with its locals set to loc
Goto(p, label, loc) ==
    /\ pc' = [pc EXCEPT ![p] = label]
    /\ local' = [local EXCEPT ![p] = loc]

\* the call of handler p returns ("ok") or raises (the origin of the exception)
Return(p, result, loc) == Goto(p, "done", [loc EXCEPT !.result = result])

\* ServerConfig row lookup of get_server_config (scalar_one_or_none)
ServerRow == IF server_config = {} THEN NoServer ELSE CHOOSE r \in server_config : TRUE

\* variant of _ensure_server_configured: the container name is not checked
_ensure_server_configured_no_container(rows) ==
    /\ rows # {}
    /\ (CHOOSE r \in rows : TRUE).server_public_key # <<>>

\* ClientService._ensure_server_configured
_ensure_server_configured(rows) ==
    /\ rows # {}
    /\ (CHOOSE r \in rows : TRUE).server_public_key # <<>>
    /\ (CHOOSE r \in rows : TRUE).container_name # ""

\* AWGService.sync_config, the effect on the interface of the composite command
\* "awg-quick strip > tmp && awg syncconf && rm -f tmp": "ok" (exit 0),
\* "fail" (strip or syncconf failed, nothing applied), "fail_applied" (the
\* configuration was applied and a later part of the exec failed).
SyncOutcomes == IF config_file.exists THEN {"ok", "fail", "fail_applied"} ELSE {"fail"}

SyncApplied(outcome) ==
    IF outcome \in {"ok", "fail_applied"}
    THEN [iface EXCEPT !.peers = {DocumentPeerKeys(config_file.content)[i] :
                                     i \in 1..Len(DocumentPeerKeys(config_file.content))}]
    ELSE iface

\* ------------------------------------------- ClientService.create_client
\* First step of the handler of exception exc raised in create_client:
\* handler 1 (add_client_peer), 2 (sync_config), 3 (render / upload),
\* 4 (update_client_config_key)
HandlerEntry(h) == IF h = 1 THEN "h_delete" ELSE IF h = 4 THEN "h_del_awg" ELSE "h_rm_read"

EnterHandler(p, h, exc, loc) ==
    Goto(p, HandlerEntry(h), [loc EXCEPT !.handler = h, !.exc = exc])

\* step after _rollback_awg_peer in handler h
AfterRollback(h) == IF h = 2 THEN "h_delete" ELSE "h_sync"

\* create_client, lines 66-70: get_server_config, _ensure_server_configured,
\* the endpoint check.  started_after: the calls that, when this one starts,
\* have created their row and not yet appended their stanza
create_client_begin(p) ==
    /\ pc[p] = "idle"
    /\ next_peer + Cardinality({q \in Procs : pc[q] = "c_allocate"}) < MaxPeers
    /\ LET loc == [InitLocal EXCEPT
                      !.op = "create", !.document0 = config_file,
                      !.started_after = {q \in Procs : pc[q] \in {"c_add_read", "c_add_write"}}]
       IN  \E ok \in BOOLEAN :
             IF ~ok
             THEN Return(p, "get_server_config",
                         [loc EXCEPT !.log = <<(<<"get_server_config", "raise">>)>>])
             ELSE IF ~_ensure_server_configured(server_config) \/ awg_server_endpoint = ""
             THEN Return(p, "ServerNotConfiguredServiceError", loc)
             ELSE Goto(p, "c_allocate", [loc EXCEPT !.server = ServerRow])
    /\ UNCHANGED <<docker, host_files, _docker_client, closes, container_tmp>>
    /\ UNCHANGED <<server_config, clients, config_file, iface, iptables_rules, minio,
                   next_peer, next_server_key, awg_server_endpoint, row_delete_raised>>

\* a create_client call of a caller that serializes the provisioning calls
create_client_get_server(p) == MayStart(p) /\ create_client_begin(p)

\* create_client, lines 72-76: get_existing_peer_ips, calculate_next_ip,
\* generate_x25519_keypair, generate_psk
create_client_allocate(p) ==
    /\ pc[p] = "c_allocate"
    /\ \E read_ok \in BOOLEAN, keys_ok \in BOOLEAN :
         LET existing_ips == IF config_file.exists
                             THEN _extract_peer_ips(config_file.content)
                             ELSE <<>>
         IN  \E ip \in calculate_next_ip(local[p].server.awg_subnet_ip, existing_ips) :
               IF config_file.exists /\ ~read_ok
               THEN Return(p, "FileAccessError",
                           [local[p] EXCEPT !.log = Log(p, "read_file", "raise")])
               ELSE IF ip \in {"TypeError", "ValueError"}
               THEN Return(p, ip,
                           [local[p] EXCEPT !.log = Log(p, "calculate_next_ip", "raise")])
               ELSE IF ~keys_ok
               THEN Return(p, "KeyGenerationError",
                           [local[p] EXCEPT !.log = Log(p, "generate_keys", "raise")])
               ELSE Goto(p, "c_insert",
                         [local[p] EXCEPT !.next_ip = ip, !.peer = next_peer + 1,
                                          !.log = Log(p, "calculate_next_ip", ip)])
    /\ next_peer' = IF pc'[p] = "c_insert" THEN next_peer + 1 ELSE next_peer
    /\ UNCHANGED <<docker, host_files, _docker_client, closes, container_tmp>>
    /\ UNCHANGED <<server_config, clients, config_file, iface, iptables_rules, minio,
                   next_server_key, awg_server_endpoint, row_delete_raised>>

\* create_client, lines 78-86: create_client_without_config
create_client_insert(p) ==
    /\ pc[p] = "c_insert"
    /\ \E ok \in BOOLEAN :
         IF ok
         THEN LET row == [id |-> local[p].peer,
                          client_public_key |-> PublicKeyOf(local[p].peer),
                          client_ip |-> local[p].next_ip,
                          config_minio_key |-> <<>>]
              IN  /\ clients' = clients \cup {row}
                  /\ Goto(p, "c_add_read",
                          [local[p] EXCEPT !.client = row, !.log = Log(p, "insert", "ok")])
         ELSE /\ Return(p, "create_client_without_config",
                        [local[p] EXCEPT !.log = Log(p, "insert", "raise")])
              /\ UNCHANGED clients
    /\ UNCHANGED <<docker, host_files, _docker_client, closes, container_tmp>>
    /\ UNCHANGED <<server_config, config_file, iface, iptables_rules, minio,
                   next_peer, next_server_key, awg_server_endpoint, row_delete_raised>>

\* create_client, line 89, AWGService.add_client_peer up to its read:
\* _read_config_or_raise; failure enters the handler of lines 90-92
add_client_peer_read(p) ==
    /\ pc[p] = "c_add_read"
    /\ \E ok \in BOOLEAN :
         IF ~config_file.exists
         THEN EnterHandler(p, 1, "ConfigParseError",
                           [local[p] EXCEPT !.log = Log(p, "add_client_peer", "raise")])
         ELSE IF ~ok
         THEN EnterHandler(p, 1, "FileAccessError",
                           [local[p] EXCEPT !.log = Log(p, "add_client_peer", "raise")])
         ELSE Goto(p, "c_add_write", [local[p] EXCEPT !.content = config_file.content])
    /\ UNCHANGED <<docker, host_files, _docker_client, closes, container_tmp>>
    /\ UNCHANGED <<server_config, clients, config_file, iface, iptables_rules, minio,
                   next_peer, next_server_key, awg_server_endpoint, row_delete_raised>>

\* variant of add_client_peer_write: the stanza is appended to the document
\* as it was when the call started, not as add_client_peer read it
add_client_peer_write_from_start(p) ==
    /\ pc[p] = "c_add_write"
    /\ \E ok \in BOOLEAN :
         IF ok
         THEN /\ config_file' = [exists |-> TRUE,
                                 content |-> AppendPeer(local[p].document0.content,
                                                        local[p].client.client_public_key,
                                                        local[p].next_ip,
                                                        PskOf(local[p].peer))]
              /\ Goto(p, "c_sync", [local[p] EXCEPT !.log = Log(p, "add_client_peer", "ok")])
         ELSE /\ EnterHandler(p, 1, "FileAccessError",
                              [local[p] EXCEPT !.log = Log(p, "add_client_peer", "raise")])
              /\ UNCHANGED config_file
    /\ UNCHANGED <<docker, host_files, _docker_client, closes, container_tmp>>
    /\ UNCHANGED <<server_config, clients, iface, iptables_rules, minio,
                   next_peer, next_server_key, awg_server_endpoint, row_delete_raised>>

\* AWGService.add_client_peer, its write_file (atomic: a failed write leaves
\* the document as it was)
add_client_peer_write(p) ==
    /\ pc[p] = "c_add_write"
    /\ \E ok \in BOOLEAN :
         IF ok
         THEN /\ config_file' = [exists |-> TRUE,
                                 content |-> AppendPeer(local[p].content,
                                                        local[p].client.client_public_key,
                                                        local[p].next_ip,
                                                        PskOf(local[p].peer))]
              /\ Goto(p, "c_sync", [local[p] EXCEPT !.log = Log(p, "add_client_peer", "ok")])
         ELSE /\ EnterHandler(p, 1, "FileAccessError",
                              [local[p] EXCEPT !.log = Log(p, "add_client_peer", "raise")])
              /\ UNCHANGED config_file
    /\ UNCHANGED <<docker, host_files, _docker_client, closes, container_tmp>>
    /\ UNCHANGED <<server_config, clients, iface, iptables_rules, minio,
                   next_peer, next_server_key, awg_server_endpoint, row_delete_raised>>

\* create_client, lines 94-99: sync_config; failure enters the handler
create_client_sync(p) ==
    /\ pc[p] = "c_sync"
    /\ \E outcome \in SyncOutcomes :
         /\ iface' = SyncApplied(outcome)
         /\ IF outcome = "ok"
            THEN Goto(p, "c_upload_awg", [local[p] EXCEPT !.log = Log(p, "sync_config", "ok")])
            ELSE EnterHandler(p, 2, "sync_config",
                              [local[p] EXCEPT !.log = Log(p, "sync_config", "raise")])
    /\ UNCHANGED <<docker, host_files, _docker_client, closes, container_tmp>>
    /\ UNCHANGED <<server_config, clients, config_file, iptables_rules, minio,
                   next_peer, next_server_key, awg_server_endpoint, row_delete_raised>>

\* create_client, lines 102-123: both payloads are rendered, the plain one is
\* uploaded; failure enters the handler of lines 125-129
create_client_upload_awg(p) ==
    /\ pc[p] = "c_upload_awg"
    /\ \E outcome \in {"ok", "render", "upload_awg"} :
         IF outcome = "ok"
         THEN /\ minio' = minio \cup {ConfigKey(local[p].client.id, "_awg")}
              /\ Goto(p, "c_upload_amnezia",
                      [local[p] EXCEPT !.awg_config_key = ConfigKey(local[p].client.id, "_awg"),
                                       !.log = Log(p, "upload_awg", "ok")])
         ELSE /\ EnterHandler(p, 3, outcome, [local[p] EXCEPT !.log = Log(p, outcome, "raise")])
              /\ UNCHANGED minio
    /\ UNCHANGED <<docker, host_files, _docker_client, closes, container_tmp>>
    /\ UNCHANGED <<server_config, clients, config_file, iface, iptables_rules,
                   next_peer, next_server_key, awg_server_endpoint, row_delete_raised>>

\* create_client, line 124: the portable link is uploaded
create_client_upload_amnezia(p) ==
    /\ pc[p] = "c_upload_amnezia"
    /\ \E ok \in BOOLEAN :
         IF ok
         THEN /\ minio' = minio \cup {ConfigKey(local[p].client.id, "_amnezia")}
              /\ Goto(p, "c_update",
                      [local[p] EXCEPT
                         !.amnezia_config_key = ConfigKey(local[p].client.id, "_amnezia"),
                         !.log = Log(p, "upload_amnezia", "ok")])
         ELSE /\ EnterHandler(p, 3, "upload_amnezia",
                              [local[p] EXCEPT !.log = Log(p, "upload_amnezia", "raise")])
              /\ UNCHANGED minio
    /\ UNCHANGED <<docker, host_files, _docker_client, closes, container_tmp>>
    /\ UNCHANGED <<server_config, clients, config_file, iface, iptables_rules,
                   next_peer, next_server_key, awg_server_endpoint, row_delete_raised>>

\* create_client, lines 131-132: update_client_config_key; failure (also:
\* the row is gone) enters the handler of lines 133-139
create_client_update(p) ==
    /\ pc[p] = "c_update"
    /\ \E ok \in BOOLEAN :
         IF ok /\ local[p].client \in clients
         THEN LET row == [local[p].client EXCEPT !.config_minio_key = local[p].awg_config_key]
              IN  /\ clients' = (clients \ {local[p].client}) \cup {row}
                  /\ Return(p, "ok", [local[p] EXCEPT !.client = row,
                                                      !.log = Log(p, "update", "ok")])
         ELSE /\ EnterHandler(p, 4, "update_client_config_key",
                              [local[p] EXCEPT !.log = Log(p, "update", "raise")])
              /\ UNCHANGED clients
    /\ UNCHANGED <<docker, host_files, _docker_client, closes, container_tmp>>
    /\ UNCHANGED <<server_config, config_file, iface, iptables_rules, minio,
                   next_peer, next_server_key, awg_server_endpoint, row_delete_raised>>

\* variant of handler_delete_config: only the plain artifact is deleted
handler_delete_config_awg_only(p) ==
    /\ pc[p] \in {"h_del_awg", "h_del_amnezia"}
    /\ LET awg == pc[p] = "h_del_awg"
           step == IF awg THEN "delete_config_awg" ELSE "delete_config_amnezia"
       IN  \E ok \in BOOLEAN :
             IF ok
             THEN /\ minio' = IF awg THEN minio \ {local[p].awg_config_key} ELSE minio
                  /\ Goto(p, IF awg THEN "h_del_amnezia" ELSE "h_rm_read",
                          [local[p] EXCEPT !.log = Log(p, step, "ok")])
             ELSE /\ Return(p, "handler:delete_config",
                            [local[p] EXCEPT !.log = Log(p, step, "raise")])
                  /\ UNCHANGED minio
    /\ UNCHANGED <<docker, host_files, _docker_client, closes, container_tmp>>
    /\ UNCHANGED <<server_config, clients, config_file, iface, iptables_rules,
                   next_peer, next_server_key, awg_server_endpoint, row_delete_raised>>

\* create_client, lines 134 and 135: delete_config of one artifact in the
\* handler of the update; an exception of delete_config leaves the handler
handler_delete_config(p) ==
    /\ pc[p] \in {"h_del_awg", "h_del_amnezia"}
    /\ LET awg == pc[p] = "h_del_awg"
           key == IF awg THEN local[p].awg_config_key ELSE local[p].amnezia_config_key
           step == IF awg THEN "delete_config_awg" ELSE "delete_config_amnezia"
       IN  \E ok \in BOOLEAN :
             IF ok
             THEN /\ minio' = minio \ {key}
                  /\ Goto(p, IF awg THEN "h_del_amnezia" ELSE "h_rm_read",
                          [local[p] EXCEPT !.log = Log(p, step, "ok")])
             ELSE /\ Return(p, "handler:delete_config",
                            [local[p] EXCEPT !.log = Log(p, step, "raise")])
                  /\ UNCHANGED minio
    /\ UNCHANGED <<docker, host_files, _docker_client, closes, container_tmp>>
    /\ UNCHANGED <<server_config, clients, config_file, iface, iptables_rules,
                   next_peer, next_server_key, awg_server_endpoint, row_delete_raised>>

\* ClientService._rollback_awg_peer, remove_client_peer up to its read; every
\* exception is swallowed
_rollback_awg_peer_read(p) ==
    /\ pc[p] = "h_rm_read"
    /\ \E ok \in BOOLEAN :
         IF config_file.exists /\ ok
         THEN Goto(p, "h_rm_write", [local[p] EXCEPT !.content = config_file.content])
         ELSE Goto(p, AfterRollback(local[p].handler),
                   [local[p] EXCEPT !.log = Log(p, "remove_client_peer", "raise")])
    /\ UNCHANGED <<docker, host_files, _docker_client, closes, container_tmp>>
    /\ UNCHANGED <<server_config, clients, config_file, iface, iptables_rules, minio,
                   next_peer, next_server_key, awg_server_endpoint, row_delete_raised>>

\* ClientService._rollback_awg_peer, the write_file of remove_client_peer
_rollback_awg_peer_write(p) ==
    /\ pc[p] = "h_rm_write"
    /\ \E ok \in BOOLEAN :
         IF ok
         THEN /\ config_file' =
                    [exists |-> TRUE,
                     content |-> _remove_peer_block(local[p].content,
                                                    local[p].client.client_public_key)]
              /\ Goto(p, AfterRollback(local[p].handler),
                      [local[p] EXCEPT !.log = Log(p, "remove_client_peer", "ok")])
         ELSE /\ Goto(p, AfterRollback(local[p].handler),
                      [local[p] EXCEPT !.log = Log(p, "remove_client_peer", "raise")])
              /\ UNCHANGED config_file
    /\ UNCHANGED <<docker, host_files, _docker_client, closes, container_tmp>>
    /\ UNCHANGED <<server_config, clients, iface, iptables_rules, minio,
                   next_peer, next_server_key, awg_server_endpoint, row_delete_raised>>

\* variant of handler_sync: the handler goes on to the row deletion without
\* syncing the interface
handler_sync_skipped(p) ==
    /\ pc[p] = "h_sync"
    /\ Goto(p, "h_delete", local[p])
    /\ UNCHANGED <<docker, host_files, _docker_client, closes, container_tmp>>
    /\ UNCHANGED <<server_config, clients, config_file, iface, iptables_rules, minio,
                   next_peer, next_server_key, awg_server_endpoint, row_delete_raised>>

\* create_client, lines 127 and 137: sync_config inside a handler; its
\* exception leaves the handler
handler_sync(p) ==
    /\ pc[p] = "h_sync"
    /\ \E outcome \in SyncOutcomes :
         /\ iface' = SyncApplied(outcome)
         /\ IF outcome = "ok"
            THEN Goto(p, "h_delete", [local[p] EXCEPT !.log = Log(p, "sync_config", "ok")])
            ELSE Return(p, "handler:sync_config",
                        [local[p] EXCEPT !.log = Log(p, "sync_config", "raise")])
    /\ UNCHANGED <<docker, host_files, _docker_client, closes, container_tmp>>
    /\ UNCHANGED <<server_config, clients, config_file, iptables_rules, minio,
                   next_peer, next_server_key, awg_server_endpoint, row_delete_raised>>

\* variant of handler_delete_client: the exception is raised again with the
\* row left in place
handler_delete_client_reraise(p) ==
    /\ pc[p] = "h_delete"
    /\ Return(p, local[p].exc, [local[p] EXCEPT !.log = Log(p, "delete_row", "ok")])
    /\ UNCHANGED <<docker, host_files, _docker_client, closes, container_tmp>>
    /\ UNCHANGED <<server_config, clients, config_file, iface, iptables_rules, minio,
                   next_peer, next_server_key, awg_server_endpoint, row_delete_raised>>

\* create_client, lines 91, 98, 128 and 138: delete_client(session, client),
\* then the exception being handled is raised again
handler_delete_client(p) ==
    /\ pc[p] = "h_delete"
    /\ \E ok \in BOOLEAN :
         IF ok
         THEN /\ clients' = {r \in clients : r.id # local[p].client.id}
              /\ Return(p, local[p].exc, [local[p] EXCEPT !.log = Log(p, "delete_row", "ok")])
              /\ UNCHANGED row_delete_raised
         ELSE /\ Return(p, "handler:delete_client",
                        [local[p] EXCEPT !.log = Log(p, "delete_row", "raise")])
              /\ row_delete_raised' = TRUE
              /\ UNCHANGED clients
    /\ UNCHANGED <<docker, host_files, _docker_client, closes, container_tmp>>
    /\ UNCHANGED <<server_config, config_file, iface, iptables_rules, minio,
                   next_peer, next_server_key, awg_server_endpoint>>

\* ------------------------------------------- ClientService.delete_client
\* variant of delete_client_get_client: the result of the lookup is used
\* without the check for None
delete_client_get_client_unchecked(p, client_id) ==
    /\ pc[p] = "idle"
    /\ MayStart(p)
    /\ LET loc == [InitLocal EXCEPT !.op = "delete", !.document0 = config_file,
                                    !.client = [NoRow EXCEPT !.id = client_id]]
           found == {r \in clients : r.id = client_id}
       IN  \E ok \in BOOLEAN :
             IF ~ok
             THEN Return(p, "get_client_by_id", loc)
             ELSE Goto(p, "d_get_server",
                       [loc EXCEPT !.client = IF found = {} THEN @ ELSE CHOOSE r \in found : TRUE])
    /\ UNCHANGED <<docker, host_files, _docker_client, closes, container_tmp>>
    /\ UNCHANGED <<server_config, clients, config_file, iface, iptables_rules, minio,
                   next_peer, next_server_key, awg_server_endpoint, row_delete_raised>>

\* delete_client, lines 148-150: get_client_by_id
delete_client_begin(p, client_id) ==
    /\ pc[p] = "idle"
    /\ LET loc == [InitLocal EXCEPT !.op = "delete", !.document0 = config_file,
                                    !.client = [NoRow EXCEPT !.id = client_id]]
           found == {r \in clients : r.id = client_id}
       IN  \E ok \in BOOLEAN :
             IF ~ok
             THEN Return(p, "get_client_by_id", loc)
             ELSE IF found = {}
             THEN Return(p, "ClientNotFoundServiceError", loc)
             ELSE Goto(p, "d_get_server", [loc EXCEPT !.client = CHOOSE r \in found : TRUE])
    /\ UNCHANGED <<docker, host_files, _docker_client, closes, container_tmp>>
    /\ UNCHANGED <<server_config, clients, config_file, iface, iptables_rules, minio,
                   next_peer, next_server_key, awg_server_endpoint, row_delete_raised>>

\* a delete_client call of a caller that serializes the provisioning calls
delete_client_get_client(p, client_id) == MayStart(p) /\ delete_client_begin(p, client_id)

\* delete_client, line 152: get_server_config, _ensure_server_configured
delete_client_get_server(p) ==
    /\ pc[p] = "d_get_server"
    /\ \E ok \in BOOLEAN :
         IF ~ok
         THEN Return(p, "get_server_config", local[p])
         ELSE IF ~_ensure_server_configured(server_config)
         THEN Return(p, "ServerNotConfiguredServiceError", local[p])
         ELSE Goto(p, "d_rm_read", [local[p] EXCEPT !.server = ServerRow])
    /\ UNCHANGED <<docker, host_files, _docker_client, closes, container_tmp>>
    /\ UNCHANGED <<server_config, clients, config_file, iface, iptables_rules, minio,
                   next_peer, next_server_key, awg_server_endpoint, row_delete_raised>>

\* delete_client, lines 156-159, remove_client_peer up to its read; an
\* exception is collected in errors
delete_client_remove_read(p) ==
    /\ pc[p] = "d_rm_read"
    /\ \E ok \in BOOLEAN :
         IF config_file.exists /\ ok
         THEN Goto(p, "d_rm_write", [local[p] EXCEPT !.content = config_file.content])
         ELSE Goto(p, "d_sync",
                   [local[p] EXCEPT !.errors = Append(@, "Failed to remove AWG peer"),
                                    !.log = Log(p, "remove_client_peer", "raise")])
    /\ UNCHANGED <<docker, host_files, _docker_client, closes, container_tmp>>
    /\ UNCHANGED <<server_config, clients, config_file, iface, iptables_rules, minio,
                   next_peer, next_server_key, awg_server_endpoint, row_delete_raised>>

\* delete_client, lines 156-159, the write_file of remove_client_peer
delete_client_remove_write(p) ==
    /\ pc[p] = "d_rm_write"
    /\ \E ok \in BOOLEAN :
         IF ok
         THEN /\ config_file' =
                    [exists |-> TRUE,
                     content |-> _remove_peer_block(local[p].content,
                                                    local[p].client.client_public_key)]
              /\ Goto(p, "d_sync", [local[p] EXCEPT !.log = Log(p, "remove_client_peer", "ok")])
         ELSE /\ Goto(p, "d_sync",
                      [local[p] EXCEPT !.errors = Append(@, "Failed to remove AWG peer"),
                                       !.log = Log(p, "remove_client_peer", "raise")])
              /\ UNCHANGED config_file
    /\ UNCHANGED <<docker, host_files, _docker_client, closes, container_tmp>>
    /\ UNCHANGED <<server_config, clients, iface, iptables_rules, minio,
                   next_peer, next_server_key, awg_server_endpoint, row_delete_raised>>

\* variant of delete_client_sync: the exception of sync_config is dropped
delete_client_sync_unreported(p) ==
    /\ pc[p] = "d_sync"
    /\ LET next == IF local[p].client.config_minio_key # <<>> THEN "d_del_awg" ELSE "d_delete"
       IN  \E outcome \in SyncOutcomes :
             /\ iface' = SyncApplied(outcome)
             /\ Goto(p, next,
                     [local[p] EXCEPT !.log = Log(p, "sync_config",
                                                  IF outcome = "ok" THEN "ok" ELSE "raise")])
    /\ UNCHANGED <<docker, host_files, _docker_client, closes, container_tmp>>
    /\ UNCHANGED <<server_config, clients, config_file, iptables_rules, minio,
                   next_peer, next_server_key, awg_server_endpoint, row_delete_raised>>

\* delete_client, lines 161-166: sync_config, its exception collected; the
\* artifacts are deleted only if the row has a config_minio_key
delete_client_sync(p) ==
    /\ pc[p] = "d_sync"
    /\ LET next == IF local[p].client.config_minio_key # <<>> THEN "d_del_awg" ELSE "d_delete"
       IN  \E outcome \in SyncOutcomes :
             /\ iface' = SyncApplied(outcome)
             /\ IF outcome = "ok"
                THEN Goto(p, next, [local[p] EXCEPT !.log = Log(p, "sync_config", "ok")])
                ELSE Goto(p, next,
                          [local[p] EXCEPT !.errors = Append(@, "Failed to sync AWG config"),
                                           !.log = Log(p, "sync_config", "raise")])
    /\ UNCHANGED <<docker, host_files, _docker_client, closes, container_tmp>>
    /\ UNCHANGED <<server_config, clients, config_file, iptables_rules, minio,
                   next_peer, next_server_key, awg_server_endpoint, row_delete_raised>>

\* variant of delete_client_delete_config: the portable artifact is not
\* removed from the store
delete_client_delete_config_awg_only(p) ==
    /\ pc[p] \in {"d_del_awg", "d_del_amnezia"}
    /\ LET awg == pc[p] = "d_del_awg"
           key == ConfigKey(local[p].client.id, IF awg THEN "_awg" ELSE "_amnezia")
           step == IF awg THEN "delete_config_awg" ELSE "delete_config_amnezia"
           msg == IF awg THEN "Failed to delete AWG config from MinIO"
                         ELSE "Failed to delete AmneziaVPN config from MinIO"
           next == IF awg THEN "d_del_amnezia" ELSE "d_delete"
       IN  \E ok \in BOOLEAN :
             IF ok
             THEN /\ minio' = IF awg THEN minio \ {key} ELSE minio
                  /\ Goto(p, next, [local[p] EXCEPT !.log = Log(p, step, "ok")])
             ELSE /\ Goto(p, next, [local[p] EXCEPT !.errors = Append(@, msg),
                                                     !.log = Log(p, step, "raise")])
                  /\ UNCHANGED minio
    /\ UNCHANGED <<docker, host_files, _docker_client, closes, container_tmp>>
    /\ UNCHANGED <<server_config, clients, config_file, iface, iptables_rules,
                   next_peer, next_server_key, awg_server_endpoint, row_delete_raised>>

\* delete_client, lines 167-177: delete_config of one artifact, its exception
\* collected
delete_client_delete_config(p) ==
    /\ pc[p] \in {"d_del_awg", "d_del_amnezia"}
    /\ LET awg == pc[p] = "d_del_awg"
           key == ConfigKey(local[p].client.id, IF awg THEN "_awg" ELSE "_amnezia")
           step == IF awg THEN "delete_config_awg" ELSE "delete_config_amnezia"
           msg == IF awg THEN "Failed to delete AWG config from MinIO"
                         ELSE "Failed to delete AmneziaVPN config from MinIO"
           next == IF awg THEN "d_del_amnezia" ELSE "d_delete"
       IN  \E ok \in BOOLEAN :
             IF ok
             THEN /\ minio' = minio \ {key}
                  /\ Goto(p, next, [local[p] EXCEPT !.log = Log(p, step, "ok")])
             ELSE /\ Goto(p, next, [local[p] EXCEPT !.errors = Append(@, msg),
                                                     !.log = Log(p, step, "raise")])
                  /\ UNCHANGED minio
    /\ UNCHANGED <<docker, host_files, _docker_client, closes, container_tmp>>
    /\ UNCHANGED <<server_config, clients, config_file, iface, iptables_rules,
                   next_peer, next_server_key, awg_server_endpoint, row_delete_raised>>

\* variant of delete_client_delete_row: the row is returned although cleanup
\* errors were collected
delete_client_delete_row_silent(p) ==
    /\ pc[p] = "d_delete"
    /\ \E ok \in BOOLEAN :
         IF ok
         THEN /\ clients' = {r \in clients : r.id # local[p].client.id}
              /\ Return(p, "ok", [local[p] EXCEPT !.log = Log(p, "delete_row", "ok")])
              /\ UNCHANGED row_delete_raised
         ELSE /\ Return(p, "delete_client",
                        [local[p] EXCEPT !.log = Log(p, "delete_row", "raise")])
              /\ row_delete_raised' = TRUE
              /\ UNCHANGED clients
    /\ UNCHANGED <<docker, host_files, _docker_client, closes, container_tmp>>
    /\ UNCHANGED <<server_config, config_file, iface, iptables_rules, minio,
                   next_peer, next_server_key, awg_server_endpoint>>

\* delete_client, lines 179-184: the row is deleted; the collected errors
\* are raised as one AWGServiceError, otherwise the row is returned
delete_client_delete_row(p) ==
    /\ pc[p] = "d_delete"
    /\ \E ok \in BOOLEAN :
         IF ok
         THEN /\ clients' = {r \in clients : r.id # local[p].client.id}
              /\ Return(p, IF local[p].errors # <<>> THEN "AWGServiceError" ELSE "ok",
                        [local[p] EXCEPT !.log = Log(p, "delete_row", "ok")])
              /\ UNCHANGED row_delete_raised
         ELSE /\ Return(p, "delete_client",
                        [local[p] EXCEPT !.log = Log(p, "delete_row", "raise")])
              /\ row_delete_raised' = TRUE
              /\ UNCHANGED clients
    /\ UNCHANGED <<docker, host_files, _docker_client, closes, container_tmp>>
    /\ UNCHANGED <<server_config, config_file, iface, iptables_rules, minio,
                   next_peer, next_server_key, awg_server_endpoint>>

\* ------------------------------------ POST /setup and AWGService.setup_server
\* router lines 49-57 and setup_server lines 46-79: the engine is reachable,
\* the image is present, the container is running
setup_server_container(p, subnet) ==
    /\ pc[p] = "idle"
    /\ MayStart(p)
    /\ next_server_key < MaxSetups
    /\ LET loc == [InitLocal EXCEPT !.op = "setup", !.document0 = config_file,
                                    !.server = [NoServer EXCEPT !.awg_subnet_ip = subnet,
                                                                !.container_name = ContainerName]]
       IN  \E ok \in BOOLEAN :
             IF ok THEN Goto(p, "s_keys", loc)
             ELSE Return(p, "ServerConfigurationError", loc)
    /\ UNCHANGED <<docker, host_files, _docker_client, closes, container_tmp>>
    /\ UNCHANGED <<server_config, clients, config_file, iface, iptables_rules, minio,
                   next_peer, next_server_key, awg_server_endpoint, row_delete_raised>>

\* AWGService.generate_server_keys: "wg genkey", "wg pubkey", generate_psk
generate_server_keys(p) ==
    /\ pc[p] = "s_keys"
    /\ \E ok \in BOOLEAN :
         IF ok
         THEN Goto(p, "s_write",
                   [local[p] EXCEPT !.server_key = next_server_key + 1,
                                    !.server.server_private_key =
                                        ServerPrivateKeyOf(next_server_key + 1),
                                    !.server.server_public_key =
                                        ServerPublicKeyOf(next_server_key + 1)])
         ELSE Return(p, "ServerConfigurationError",
                     [local[p] EXCEPT !.log = Log(p, "generate_server_keys", "raise")])
    /\ next_server_key' = IF pc'[p] = "s_write" THEN next_server_key + 1 ELSE next_server_key
    /\ UNCHANGED <<docker, host_files, _docker_client, closes, container_tmp>>
    /\ UNCHANGED <<server_config, clients, config_file, iface, iptables_rules, minio,
                   next_peer, awg_server_endpoint, row_delete_raised>>

\* variant of setup_server_write: the new keys are stored in the row as soon
\* as the document is written
setup_server_write_persists_keys(p) ==
    /\ pc[p] = "s_write"
    /\ \E ok \in BOOLEAN :
         IF ok
         THEN /\ config_file' =
                    [exists |-> TRUE,
                     content |-> _build_server_config(
                                     local[p].server.server_private_key,
                                     _get_server_ip(local[p].server.awg_subnet_ip),
                                     ToString(local[p].server.awg_subnet_ip.plen),
                                     ServerPort)]
              /\ server_config' =
                    {[r EXCEPT !.server_private_key = local[p].server.server_private_key,
                               !.server_public_key = local[p].server.server_public_key] :
                       r \in server_config}
              /\ Goto(p, "s_interface", [local[p] EXCEPT !.log = Log(p, "write_file", "ok")])
         ELSE /\ Return(p, "ServerConfigurationError",
                        [local[p] EXCEPT !.log = Log(p, "write_file", "raise")])
              /\ UNCHANGED <<config_file, server_config>>
    /\ UNCHANGED <<docker, host_files, _docker_client, closes, container_tmp>>
    /\ UNCHANGED <<clients, iface, iptables_rules, minio,
                   next_peer, next_server_key, awg_server_endpoint, row_delete_raised>>

\* setup_server, lines 82-89: the interface configuration is rendered and
\* written over the document
setup_server_write(p) ==
    /\ pc[p] = "s_write"
    /\ \E ok \in BOOLEAN :
         IF ok
         THEN /\ config_file' =
                    [exists |-> TRUE,
                     content |-> _build_server_config(
                                     local[p].server.server_private_key,
                                     _get_server_ip(local[p].server.awg_subnet_ip),
                                     ToString(local[p].server.awg_subnet_ip.plen),
                                     ServerPort)]
              /\ Goto(p, "s_interface", [local[p] EXCEPT !.log = Log(p, "write_file", "ok")])
         ELSE /\ Return(p, "ServerConfigurationError",
                        [local[p] EXCEPT !.log = Log(p, "write_file", "raise")])
              /\ UNCHANGED config_file
    /\ UNCHANGED <<docker, host_files, _docker_client, closes, container_tmp>>
    /\ UNCHANGED <<server_config, clients, iface, iptables_rules, minio,
                   next_peer, next_server_key, awg_server_endpoint, row_delete_raised>>

\* AWGService._ensure_interface_up: nothing is done when the interface is up;
\* otherwise "awg-quick up" loads the document
_ensure_interface_up(p) ==
    /\ pc[p] = "s_interface"
    /\ \E ok \in BOOLEAN :
         IF ~ok
         THEN /\ Return(p, "ServerConfigurationError",
                        [local[p] EXCEPT !.log = Log(p, "_ensure_interface_up", "raise")])
              /\ UNCHANGED iface
         ELSE /\ iface' = IF iface.up THEN iface
                          ELSE [up |-> TRUE,
                                peers |-> {DocumentPeerKeys(config_file.content)[i] :
                                             i \in 1..Len(DocumentPeerKeys(config_file.content))}]
              /\ Goto(p, "s_iptables", [local[p] EXCEPT !.log = Log(p, "_ensure_interface_up", "ok")])
    /\ UNCHANGED <<docker, host_files, _docker_client, closes, container_tmp>>
    /\ UNCHANGED <<server_config, clients, config_file, iptables_rules, minio,
                   next_peer, next_server_key, awg_server_endpoint, row_delete_raised>>

\* AWGService._configure_iptables: the three rules are appended (-A)
_configure_iptables(p) ==
    /\ pc[p] = "s_iptables"
    /\ \E ok \in BOOLEAN :
         IF ok
         THEN /\ iptables_rules' = iptables_rules + 1
              /\ Goto(p, "s_upsert", [local[p] EXCEPT !.log = Log(p, "_configure_iptables", "ok")])
         ELSE /\ Return(p, "ServerConfigurationError",
                        [local[p] EXCEPT !.log = Log(p, "_configure_iptables", "raise")])
              /\ UNCHANGED iptables_rules
    /\ UNCHANGED <<docker, host_files, _docker_client, closes, container_tmp>>
    /\ UNCHANGED <<server_config, clients, config_file, iface, minio,
                   next_peer, next_server_key, awg_server_endpoint, row_delete_raised>>

\* get_server_config, lines 10-15: the outcomes of the lookup of the
\* singleton row.  Line 13 passes SINGLETON_SERVER_CONFIG_ID, which is not a
\* string, to uuid.UUID, so the call as written raises AttributeError; the
\* other outcome is the lookup by the fixed identifier.
get_server_config(rows) ==
    { [raised |-> TRUE, rows |-> {}],
      [raised |-> FALSE, rows |-> {r \in rows : r.id = SINGLETON_SERVER_CONFIG_ID}] }

\* router lines 61-70: get_or_create_server_config looks the singleton row
\* up, adds it under the fixed identifier when there is none and assigns its
\* columns otherwise; commit may raise
get_or_create_server_config(p) ==
    /\ pc[p] = "s_upsert"
    /\ \E ok \in BOOLEAN, server \in get_server_config(server_config) :
         IF server.raised
         THEN /\ Return(p, "ServerConfigurationError",
                        [local[p] EXCEPT !.exc = "AttributeError",
                                         !.log = Log(p, "upsert", "raise")])
              /\ UNCHANGED server_config
         ELSE IF ok
         THEN /\ LET bundle == [local[p].server EXCEPT !.id = SINGLETON_SERVER_CONFIG_ID,
                                                       !.status = "configured"]
                 IN  server_config' = IF server.rows = {}
                                      THEN server_config \cup {bundle}
                                      ELSE (server_config \ server.rows) \cup {bundle}
              /\ Return(p, "ok", [local[p] EXCEPT !.log = Log(p, "upsert", "ok")])
         ELSE /\ Return(p, "ServerConfigurationError",
                        [local[p] EXCEPT !.log = Log(p, "upsert", "raise")])
              /\ UNCHANGED server_config
    /\ UNCHANGED <<docker, host_files, _docker_client, closes, container_tmp>>
    /\ UNCHANGED <<clients, config_file, iface, iptables_rules, minio,
                   next_peer, next_server_key, awg_server_endpoint, row_delete_raised>>

\* the router turns the result or the exception of the call into the
\* response; the handler is free for the next request
respond(p) ==
    /\ pc[p] = "done"
    /\ pc' = [pc EXCEPT ![p] = "idle"]
    /\ local' = [local EXCEPT ![p] = InitLocal]
    /\ UNCHANGED <<docker, host_files, _docker_client, closes, container_tmp>>
    /\ UNCHANGED <<server_config, clients, config_file, iface, iptables_rules, minio,
                   next_peer, next_server_key, awg_server_endpoint, row_delete_raised>>

\* ------------------------------------------------------- the specification
Next ==
    \E p \in Procs :
        \/ create_client_get_server(p)
        \/ create_client_allocate(p)
        \/ create_client_insert(p)
        \/ add_client_peer_read(p)
        \/ add_client_peer_write(p)
        \/ create_client_sync(p)
        \/ create_client_upload_awg(p)
        \/ create_client_upload_amnezia(p)
        \/ create_client_update(p)
        \/ handler_delete_config(p)
        \/ _rollback_awg_peer_read(p)
        \/ _rollback_awg_peer_write(p)
        \/ handler_sync(p)
        \/ handler_delete_client(p)
        \/ \E client_id \in PeerIds : delete_client_get_client(p, client_id)
        \/ delete_client_get_server(p)
        \/ delete_client_remove_read(p)
        \/ delete_client_remove_write(p)
        \/ delete_client_sync(p)
        \/ delete_client_delete_config(p)
        \/ delete_client_delete_row(p)
        \/ \E subnet \in Subnets : setup_server_container(p, subnet)
        \/ generate_server_keys(p)
        \/ setup_server_write(p)
        \/ _ensure_interface_up(p)
        \/ _configure_iptables(p)
        \/ get_or_create_server_config(p)
        \/ respond(p)

Spec == Init /\ [][Next]_vars

\* ------------------------------------------------------------ properties
\* the call of handler p has returned or raised
Returned(p, op) == pc[p] = "done" /\ local[p].op = op

Logged(p, step, outcome) ==
    \E i \in 1..Len(local[p].log) : local[p].log[i] = <<step, outcome>>

\* step1/outcome1 was logged before step2/outcome2
LoggedBefore(p, step1, outcome1, step2, outcome2) ==
    \E i, j \in 1..Len(local[p].log) :
        /\ i < j
        /\ local[p].log[i] = <<step1, outcome1>>
        /\ local[p].log[j] = <<step2, outcome2>>

\* number of collaborator calls of the call of p that raised
RaiseCount(p) == Cardinality({i \in 1..Len(local[p].log) : local[p].log[i][2] = "raise"})

\* the [Peer] sections of the document, as the interface tooling reads them
Stanzas(content) ==
    LET sections == split(content, <<NL, PEER_MARK>>)
    IN  [i \in 1..(Len(sections) - 1) |-> sections[i + 1]]

StanzaCount(content, public_key) ==
    Cardinality({i \in 1..Len(Stanzas(content)) :
                    SectionPublicKey(Stanzas(content)[i]) = public_key})

DocumentKeySet(content) ==
    {SectionPublicKey(Stanzas(content)[i]) : i \in 1..Len(Stanzas(content))}

RowPresent(id) == \E r \in clients : r.id = id

\* create_client raised out of the handler h with one failed step in all
CreateFailedOnlyAt(p, h) ==
    /\ Returned(p, "create")
    /\ local[p].handler = h
    /\ RaiseCount(p) = 1

DeleteReachedCleanup(p) ==
    /\ Returned(p, "delete")
    /\ local[p].server.container_name # ""

C11_DeleteOfAbsentPeer ==
    [][\A p \in Procs :
          (/\ pc[p] = "idle"
           /\ pc'[p] # "idle"
           /\ local'[p].op = "delete"
           /\ ~RowPresent(local'[p].client.id)
           /\ local'[p].result # "get_client_by_id")
          => /\ pc'[p] = "done"
             /\ local'[p].result = "ClientNotFoundServiceError"
             /\ local'[p].log = <<>>
             /\ UNCHANGED <<config_file, iface, minio, clients, server_config>>]_vars

C11_Witness ==
    \E p \in Procs :
        /\ Returned(p, "delete")
        /\ local[p].result = "ClientNotFoundServiceError"
        /\ ~RowPresent(local[p].client.id)
        /\ clients # {}
        /\ DocumentKeySet(config_file.content) # {}

\* the ServerProfile is absent or lacks the public key, the container name or
\* the endpoint
ProfileIncomplete ==
    \/ server_config = {}
    \/ ServerRow.server_public_key = <<>>
    \/ ServerRow.container_name = ""
    \/ awg_server_endpoint = ""

AllSubnets == [addr : Addrs, plen : 0..AddrBits]

\* the texts a list of existing addresses may hold: addresses and a text
\* that validate_ip rejects
IpTexts == {<<int_to_ip(a)>> : a \in Addrs} \cup {<<"bogus">>}

ReservedLists == UNION {[1..n -> IpTexts] : n \in 0..MaxReserved}

\* the allocator is called with a subnet and a list of existing addresses
InitAllocator ==
    /\ server_config = {}
    /\ clients = {}
    /\ config_file = [exists |-> FALSE, content |-> <<>>]
    /\ iface = [up |-> FALSE, peers |-> {}]
    /\ iptables_rules = 0
    /\ minio = {}
    /\ next_peer = 0
    /\ next_server_key = 0
    /\ awg_server_endpoint = ""
    /\ row_delete_raised = FALSE
    /\ docker = DockerReady
    /\ host_files = NoFiles
    /\ _docker_client = 0
    /\ closes = <<>>
    /\ container_tmp = FALSE
    /\ pc = [p \in 1..NumProcs |-> "a_call"]
    /\ \E subnet \in AllSubnets, existing_ips \in ReservedLists :
         local = [p \in 1..NumProcs |->
                    [InitLocal EXCEPT !.server = [NoServer EXCEPT !.awg_subnet_ip = subnet],
                                      !.existing_ips = existing_ips]]

\* a call of ip_utils.get_next_available_ip(subnet, existing_ips)
get_next_available_ip_call(p) ==
    /\ pc[p] = "a_call"
    /\ Return(p, get_next_available_ip(local[p].server.awg_subnet_ip, local[p].existing_ips),
              [local[p] EXCEPT !.op = "get_next_available_ip"])
    /\ UNCHANGED <<docker, host_files, _docker_client, closes, container_tmp>>
    /\ UNCHANGED <<server_config, clients, config_file, iface, iptables_rules, minio,
                   next_peer, next_server_key, awg_server_endpoint, row_delete_raised>>

\* a call of AWGService.calculate_next_ip(subnet, existing_ips)
calculate_next_ip_call(p) ==
    /\ pc[p] = "a_call"
    /\ \E outcome \in calculate_next_ip(local[p].server.awg_subnet_ip, local[p].existing_ips) :
         Return(p, outcome, [local[p] EXCEPT !.op = "calculate_next_ip"])
    /\ UNCHANGED <<docker, host_files, _docker_client, closes, container_tmp>>
    /\ UNCHANGED <<server_config, clients, config_file, iface, iptables_rules, minio,
                   next_peer, next_server_key, awg_server_endpoint, row_delete_raised>>

NextAllocator == \E p \in Procs : get_next_available_ip_call(p) \/ calculate_next_ip_call(p)

SpecAllocator == InitAllocator /\ [][NextAllocator]_vars

\* the addresses of a list of texts (the texts validate_ip accepts)
ReservedAddrs(existing_ips) ==
    {ip_to_int(existing_ips[i]) : i \in {j \in 1..Len(existing_ips) : validate_ip(existing_ips[j])}}

\* the usable host addresses of a subnet: all but the network address and the
\* broadcast address
UsableHosts(subnet) ==
    {a \in Addrs : NetworkAddress(subnet) < a /\ a < BroadcastAddress(subnet)}

\* C13 (as claimed): for every subnet (every prefix length, /31 and /32
\* included) and every list of reserved addresses, get_next_available_ip
\* never returns the network address, the broadcast address or a reserved
\* address
C13_NeverNetworkBroadcastReserved ==
    \A p \in Procs :
        (Returned(p, "get_next_available_ip") /\ local[p].result # "ValueError") =>
            LET subnet == local[p].server.awg_subnet_ip
            IN  /\ local[p].result # int_to_ip(NetworkAddress(subnet))
                /\ local[p].result # int_to_ip(BroadcastAddress(subnet))
                /\ \A a \in ReservedAddrs(local[p].existing_ips) : local[p].result # int_to_ip(a)

\* C14 (as claimed): get_next_available_ip returns the smallest usable host
\* address of the subnet that is not reserved, and raises the exhaustion
\* error exactly when every usable host address is reserved
C14_SmallestFreeUsableHost ==
    \A p \in Procs :
        Returned(p, "get_next_available_ip") =>
            LET free == UsableHosts(local[p].server.awg_subnet_ip)
                            \ ReservedAddrs(local[p].existing_ips)
            IN  IF free = {}
                THEN local[p].result = "ValueError"
                ELSE local[p].result = int_to_ip(CHOOSE a \in free : \A b \in free : a <= b)

\* C15 (as claimed): for every subnet and every list of peer addresses
\* calculate_next_ip returns an address, and that address is not the first
\* host address of the subnet
C15_AllocatesPastServerAddress ==
    \A p \in Procs :
        Returned(p, "calculate_next_ip") =>
            /\ local[p].result \notin {"TypeError", "ValueError"}
            /\ local[p].result # _get_server_ip(local[p].server.awg_subnet_ip)

\* ---------------------------------------------- calls that are not serialized
\* the subnet of the server the concurrent calls run against
ConcurrentSubnet == [addr |-> 9, plen |-> AddrBits - 3]

\* the address create_client gives the first peer of the subnet
FirstPeerIp(subnet) == get_next_available_ip(subnet, <<(<<_get_server_ip(subnet)>>)>>)

\* the state one successful POST /setup leaves, followed or not by one
\* successful create_client; NumConcurrent handlers take one request each and
\* nothing orders their calls
InitConcurrent ==
    /\ server_config = {[NoServer EXCEPT !.status = "configured",
                                         !.awg_subnet_ip = ConcurrentSubnet,
                                         !.server_public_key = ServerPublicKeyOf(1),
                                         !.server_private_key = ServerPrivateKeyOf(1),
                                         !.container_name = ContainerName]}
    /\ LET header == _build_server_config(ServerPrivateKeyOf(1),
                                          _get_server_ip(ConcurrentSubnet),
                                          ToString(ConcurrentSubnet.plen), ServerPort)
       IN  \/ /\ clients = {}
              /\ config_file = [exists |-> TRUE, content |-> header]
              /\ iface = [up |-> TRUE, peers |-> {}]
              /\ minio = {}
              /\ next_peer = 0
           \/ /\ clients = {[id |-> 1, client_public_key |-> PublicKeyOf(1),
                             client_ip |-> FirstPeerIp(ConcurrentSubnet),
                             config_minio_key |-> ConfigKey(1, "_awg")]}
              /\ config_file = [exists |-> TRUE,
                                content |-> AppendPeer(header, PublicKeyOf(1),
                                                       FirstPeerIp(ConcurrentSubnet), PskOf(1))]
              /\ iface = [up |-> TRUE, peers |-> {PublicKeyOf(1)}]
              /\ minio = {ConfigKey(1, "_awg"), ConfigKey(1, "_amnezia")}
              /\ next_peer = 1
    /\ iptables_rules = 1
    /\ next_server_key = 1
    /\ awg_server_endpoint = "vpn.example.org"
    /\ row_delete_raised = FALSE
    /\ docker = DockerReady
    /\ host_files = NoFiles
    /\ _docker_client = 0
    /\ closes = <<>>
    /\ container_tmp = FALSE
    /\ pc = [p \in 1..NumConcurrent |-> "idle"]
    /\ local = [p \in 1..NumConcurrent |-> InitLocal]

NextConcurrent ==
    \E p \in Procs :
        \/ create_client_begin(p)
        \/ create_client_allocate(p)
        \/ create_client_insert(p)
        \/ add_client_peer_read(p)
        \/ add_client_peer_write(p)
        \/ create_client_sync(p)
        \/ create_client_upload_awg(p)
        \/ create_client_upload_amnezia(p)
        \/ create_client_update(p)
        \/ handler_delete_config(p)
        \/ _rollback_awg_peer_read(p)
        \/ _rollback_awg_peer_write(p)
        \/ handler_sync(p)
        \/ handler_delete_client(p)
        \/ \E client_id \in PeerIds : delete_client_begin(p, client_id)
        \/ delete_client_get_server(p)
        \/ delete_client_remove_read(p)
        \/ delete_client_remove_write(p)
        \/ delete_client_sync(p)
        \/ delete_client_delete_config(p)
        \/ delete_client_delete_row(p)

SpecConcurrent == InitConcurrent /\ [][NextConcurrent]_vars

Succeeded(p) == pc[p] = "done" /\ local[p].result = "ok" /\ local[p].op \in {"create", "delete"}

\* the public key of the peer the call of handler p created or deleted
CallKey(p) == local[p].client.client_public_key

\* the successful create of p appended a stanza the document lacks, and the
\* other call q did not delete that peer
CreateLost(p, q) ==
    /\ p # q /\ Succeeded(p) /\ Succeeded(q) /\ local[p].op = "create"
    /\ StanzaCount(config_file.content, CallKey(p)) = 0
    /\ ~(local[q].op = "delete" /\ CallKey(q) = CallKey(p))

\* the successful delete of p removed a stanza the document still holds, and
\* the other call q did not create that peer
DeleteLost(p, q) ==
    /\ p # q /\ Succeeded(p) /\ Succeeded(q) /\ local[p].op = "delete"
    /\ StanzaCount(config_file.content, CallKey(p)) > 0
    /\ ~(local[q].op = "create" /\ CallKey(q) = CallKey(p))

\* the document the call of handler q wrote from the document it had read
Written(q) ==
    IF local[q].op = "create"
    THEN AppendPeer(local[q].content, CallKey(q), local[q].next_ip, PskOf(local[q].peer))
    ELSE _remove_peer_block(local[q].content, CallKey(q))

C17_WitnessDelete ==
    \E p, q \in Procs : DeleteLost(p, q) /\ local[q].op = "create"

\* ------------------------------------------------- the document functions
\* the interface header written by setup_server, as written and with other
\* trailing whitespace
DocHeaders ==
    LET header == _build_server_config(ServerPrivateKeyOf(1), _get_server_ip(ConcurrentSubnet),
                                       ToString(ConcurrentSubnet.plen), ServerPort)
    IN  {header, header \o <<NL>>, header \o <<SP, NL>>, rstrip(header)}

\* the peers whose stanzas are appended and removed, and their addresses
DocPeers == 1..MaxStanzas
DocIps == {int_to_ip(a) : a \in 1..MaxStanzas}

\* the document functions are applied, one after the other, to a document
\* that starts as a header without stanzas
InitDocument ==
    /\ server_config = {}
    /\ clients = {}
    /\ config_file = [exists |-> FALSE, content |-> <<>>]
    /\ iface = [up |-> FALSE, peers |-> {}]
    /\ iptables_rules = 0
    /\ minio = {}
    /\ next_peer = 0
    /\ next_server_key = 0
    /\ awg_server_endpoint = ""
    /\ row_delete_raised = FALSE
    /\ docker = DockerReady
    /\ host_files = NoFiles
    /\ _docker_client = 0
    /\ closes = <<>>
    /\ container_tmp = FALSE
    /\ pc = [p \in 1..NumProcs |-> "document"]
    /\ \E header \in DocHeaders :
         local = [p \in 1..NumProcs |-> [InitLocal EXCEPT !.content = header]]

\* the call did step op on public_key and left content: the two last steps
\* and the documents before them are kept
Applied(p, op, public_key, content, appended) ==
    local' = [local EXCEPT ![p] = [@ EXCEPT !.content = content,
                                            !.before = local[p].content,
                                            !.before2 = local[p].before,
                                            !.last = <<op, public_key>>,
                                            !.last2 = local[p].last,
                                            !.appended = appended,
                                            !.existing_ips = <<>>,
                                            !.extracted = FALSE]]

\* add_client_peer, lines 139-140: a stanza of a peer that has none, with an
\* address no stanza has
AppendPeer_call(p) ==
    /\ pc[p] = "document"
    /\ Len(local[p].appended) < MaxStanzas
    /\ \E i \in DocPeers, ip \in DocIps :
         /\ \A j \in 1..Len(local[p].appended) :
                local[p].appended[j].peer # i /\ local[p].appended[j].ip # ip
         /\ Applied(p, "append", PublicKeyOf(i),
                    AppendPeer(local[p].content, PublicKeyOf(i), ip, PskOf(i)),
                    Append(local[p].appended, [peer |-> i, ip |-> ip]))
    /\ UNCHANGED <<docker, host_files, _docker_client, closes, container_tmp>>
    /\ UNCHANGED <<server_config, clients, config_file, iface, iptables_rules, minio,
                   next_peer, next_server_key, awg_server_endpoint, row_delete_raised, pc>>

\* remove_client_peer, line 146: _remove_peer_block with the key of a peer
\* that has a stanza or has none
_remove_peer_block_call(p) ==
    /\ pc[p] = "document"
    /\ \E i \in DocPeers :
         Applied(p, "remove", PublicKeyOf(i),
                 _remove_peer_block(local[p].content, PublicKeyOf(i)),
                 SelectSeq(local[p].appended, LAMBDA e : e.peer # i))
    /\ UNCHANGED <<docker, host_files, _docker_client, closes, container_tmp>>
    /\ UNCHANGED <<server_config, clients, config_file, iface, iptables_rules, minio,
                   next_peer, next_server_key, awg_server_endpoint, row_delete_raised, pc>>

\* get_existing_peer_ips, line 129: _extract_peer_ips of the document
_extract_peer_ips_call(p) ==
    /\ pc[p] = "document"
    /\ ~local[p].extracted
    /\ local' = [local EXCEPT ![p] = [@ EXCEPT !.existing_ips = _extract_peer_ips(local[p].content),
                                               !.extracted = TRUE]]
    /\ UNCHANGED <<docker, host_files, _docker_client, closes, container_tmp>>
    /\ UNCHANGED <<server_config, clients, config_file, iface, iptables_rules, minio,
                   next_peer, next_server_key, awg_server_endpoint, row_delete_raised, pc>>

NextDocument ==
    \E p \in Procs :
        \/ AppendPeer_call(p)
        \/ _remove_peer_block_call(p)
        \/ _extract_peer_ips_call(p)

SpecDocument == InitDocument /\ [][NextDocument]_vars

\* header and stanzas of a document, each without surrounding whitespace
DocHeader(content) == strip(split(content, <<NL, PEER_MARK>>)[1])
DocStanzas(content) == [i \in 1..Len(Stanzas(content)) |-> strip(Stanzas(content)[i])]

\* same header and same stanzas in the same order
SemanticallyEqual(a, b) == DocHeader(a) = DocHeader(b) /\ DocStanzas(a) = DocStanzas(b)

AppendedIps(p) == [j \in 1..Len(local[p].appended) |-> <<local[p].appended[j].ip>>]

\* C19: from a header without stanzas, after appends with pairwise distinct
\* addresses and removals, the extracted addresses are exactly the addresses
\* of the stanzas appended and not removed, in the order of the appends
C19_ExtractedAddressesInAppendOrder ==
    \A p \in Procs :
        (pc[p] = "document" /\ local[p].extracted) => local[p].existing_ips = AppendedIps(p)

\* MaxStanzas stanzas were appended, one was removed, and the addresses of
\* the others were extracted
C19_Witness ==
    \E p \in Procs :
        /\ local[p].extracted
        /\ local[p].last[1] = "remove"
        /\ Len(local[p].existing_ips) = MaxStanzas - 1
        /\ Len(_extract_peer_ips(local[p].before)) = MaxStanzas
        /\ local[p].existing_ips[1] # _extract_peer_ips(local[p].before)[1]

\* C20: removing a public key that no stanza of the document carries returns
\* the document unchanged, with no stanzas and with stanzas of other keys
C20_RemoveOfAbsentKeyIsIdentity ==
    \A p \in Procs :
        (/\ local[p].last[1] = "remove"
         /\ StanzaCount(local[p].before, local[p].last[2]) = 0)
        => local[p].content = local[p].before

\* the part of C20 the code keeps: a document without stanzas is returned
\* as it is
C20_NoStanzasUnchanged ==
    \A p \in Procs :
        (local[p].last[1] = "remove" /\ Len(Stanzas(local[p].before)) = 0)
        => local[p].content = local[p].before

\* the part of C20 the code keeps up to whitespace: header and stanzas of the
\* other keys are the same, and a second removal changes nothing
C20_OtherStanzasKept ==
    \A p \in Procs :
        (/\ local[p].last[1] = "remove"
         /\ StanzaCount(local[p].before, local[p].last[2]) = 0)
        => /\ SemanticallyEqual(local[p].content, local[p].before)
           /\ _remove_peer_block(local[p].content, local[p].last[2]) = local[p].content

\* the number of whitespace tokens at the end of a text
TrailingWhitespace(text) == Len(text) - Len(rstrip(text))

\* the appended document starts with the content of the document before it,
\* trailing whitespace aside, and the new stanza follows
ExistingContentKept(before, after, public_key) ==
    /\ startswith(after, rstrip(before))
    /\ DocHeader(after) = DocHeader(before)
    /\ Len(DocStanzas(after)) = Len(DocStanzas(before)) + 1
    /\ \A i \in 1..Len(DocStanzas(before)) : DocStanzas(after)[i] = DocStanzas(before)[i]
    /\ SectionPublicKey(Stanzas(after)[Len(Stanzas(after))]) = public_key

\* C21: an append keeps header and earlier stanzas in place before the new
\* stanza, and the document it yields ends with exactly one newline whatever
\* whitespace the input ended with
C21_AppendKeepsContentOneNewline ==
    \A p \in Procs :
        local[p].last[1] = "append"
        => /\ ExistingContentKept(local[p].before, local[p].content, local[p].last[2])
           /\ TrailingWhitespace(local[p].content) = 1
           /\ local[p].content[Len(local[p].content)] = NL

\* the part of C21 the code keeps: the existing content stays in place before
\* the new stanza, and the document ends the same way (two newlines) whatever
\* whitespace the input ended with
C21_AppendKeepsContent ==
    \A p \in Procs :
        local[p].last[1] = "append"
        => /\ ExistingContentKept(local[p].before, local[p].content, local[p].last[2])
           /\ TrailingWhitespace(local[p].content) = 2
           /\ SubSeq(local[p].content, Len(local[p].content) - 1, Len(local[p].content)) = <<NL, NL>>

\* ------------------------------------- HostService.read_file / write_file
\* the texts written to the document: the header of setup_server and the
\* header followed by a stanza
ServerHeader ==
    _build_server_config(ServerPrivateKeyOf(1), _get_server_ip(ConcurrentSubnet),
                         ToString(ConcurrentSubnet.plen), ServerPort)
FileContents ==
    {ServerHeader,
     AppendPeer(ServerHeader, PublicKeyOf(1), FirstPeerIp(ConcurrentSubnet), PskOf(1))}

\* the directory holds no document or the document setup_server wrote;
\* NumFileProcs callers are about to read or write it
InitWriteFile ==
    /\ server_config = {}
    /\ clients = {}
    /\ config_file = [exists |-> FALSE, content |-> <<>>]
    /\ iface = [up |-> FALSE, peers |-> {}]
    /\ iptables_rules = 0
    /\ minio = {}
    /\ next_peer = 0
    /\ next_server_key = 0
    /\ awg_server_endpoint = ""
    /\ row_delete_raised = FALSE
    /\ docker = DockerReady
    /\ host_files \in {NoFiles, [inodes |-> <<ServerHeader>>, target |-> 1, temps |-> <<>>]}
    /\ _docker_client = 0
    /\ closes = <<>>
    /\ container_tmp = FALSE
    /\ pc = [p \in 1..NumFileProcs |-> "f_idle"]
    /\ local = [p \in 1..NumFileProcs |-> InitLocal]

\* the text of the file at the target path, <<>> when there is none
TargetContent == IF host_files.target = 0 THEN <<>> ELSE host_files.inodes[host_files.target]

\* the callers that are writing a temporary file or are about to rename it
Writing == {q \in Procs : pc[q] \in {"w_write", "w_close", "w_replace"}}

\* write_file, lines 31-33: target.parent.mkdir(parents=True, exist_ok=True)
write_file_mkdir(p, content) ==
    /\ pc[p] = "f_idle"
    /\ LET loc == [InitLocal EXCEPT !.op = "write_file", !.content = content,
                                    !.document0 = TargetContent]
       IN  \E ok \in BOOLEAN :
             IF ok THEN Goto(p, "w_open", loc) ELSE Return(p, "FileAccessError", loc)
    /\ UNCHANGED <<server_config, clients, config_file, iface, iptables_rules, minio,
                   next_peer, next_server_key, awg_server_endpoint, row_delete_raised,
                   docker, host_files, _docker_client, closes, container_tmp>>

\* write_file, lines 35-41: NamedTemporaryFile creates an empty file with a
\* fresh name in the directory of the target
write_file_open(p) ==
    /\ UNCHANGED <<_docker_client, closes, container_tmp>>
    /\ pc[p] = "w_open"
    /\ \E ok \in BOOLEAN :
         IF ok
         THEN /\ host_files' = [host_files EXCEPT
                                   !.inodes = Append(@, <<>>),
                                   !.temps = Append(@, Len(host_files.inodes) + 1)]
              /\ Goto(p, "w_write", [local[p] EXCEPT !.fd = Len(host_files.inodes) + 1])
         ELSE /\ Return(p, "FileAccessError", local[p])
              /\ UNCHANGED host_files
    /\ UNCHANGED <<server_config, clients, config_file, iface, iptables_rules, minio,
                   next_peer, next_server_key, awg_server_endpoint, row_delete_raised,
                   docker>>

\* variant of write_file_write: the text is written over the file at the
\* target path itself
write_file_write_in_place(p) ==
    /\ UNCHANGED <<_docker_client, closes, container_tmp>>
    /\ pc[p] = "w_write"
    /\ LET done == Len(host_files.inodes[local[p].fd])
           upto == IF done + WriteChunk < Len(local[p].content)
                   THEN done + WriteChunk ELSE Len(local[p].content)
       IN  \E ok \in BOOLEAN :
             IF ok
             THEN /\ host_files' =
                        [host_files EXCEPT
                            !.inodes[local[p].fd] = SubSeq(local[p].content, 1, upto),
                            !.target = local[p].fd]
                  /\ Goto(p, IF upto = Len(local[p].content) THEN "w_close" ELSE "w_write",
                          local[p])
             ELSE /\ Return(p, "FileAccessError", local[p])
                  /\ UNCHANGED host_files
    /\ UNCHANGED <<server_config, clients, config_file, iface, iptables_rules, minio,
                   next_peer, next_server_key, awg_server_endpoint, row_delete_raised,
                   docker>>

\* write_file, line 42: tmp_file.write(content); the text reaches the
\* temporary file one system call at a time, and a call may fail
write_file_write(p) ==
    /\ UNCHANGED <<_docker_client, closes, container_tmp>>
    /\ pc[p] = "w_write"
    /\ LET done == Len(host_files.inodes[local[p].fd])
           upto == IF done + WriteChunk < Len(local[p].content)
                   THEN done + WriteChunk ELSE Len(local[p].content)
       IN  \E ok \in BOOLEAN :
             IF ok
             THEN /\ host_files' =
                        [host_files EXCEPT
                            !.inodes[local[p].fd] = SubSeq(local[p].content, 1, upto)]
                  /\ Goto(p, IF upto = Len(local[p].content) THEN "w_close" ELSE "w_write",
                          local[p])
             ELSE /\ Return(p, "FileAccessError", local[p])
                  /\ UNCHANGED host_files
    /\ UNCHANGED <<server_config, clients, config_file, iface, iptables_rules, minio,
                   next_peer, next_server_key, awg_server_endpoint, row_delete_raised,
                   docker>>

\* write_file, lines 43: temp_path is set, the temporary file is closed on
\* leaving the with block
write_file_close(p) ==
    /\ pc[p] = "w_close"
    /\ \E ok \in BOOLEAN :
         IF ok THEN Goto(p, "w_replace", [local[p] EXCEPT !.temp_path = local[p].fd])
         ELSE Return(p, "FileAccessError", local[p])
    /\ UNCHANGED <<server_config, clients, config_file, iface, iptables_rules, minio,
                   next_peer, next_server_key, awg_server_endpoint, row_delete_raised,
                   docker, host_files, _docker_client, closes, container_tmp>>

\* write_file, lines 45-46: temp_path.replace(target), the rename
write_file_replace(p) ==
    /\ UNCHANGED <<_docker_client, closes, container_tmp>>
    /\ pc[p] = "w_replace"
    /\ \E ok \in BOOLEAN :
         IF ok
         THEN /\ host_files' = [host_files EXCEPT
                                   !.target = local[p].temp_path,
                                   !.temps = SelectSeq(@, LAMBDA i : i # local[p].temp_path)]
              /\ Return(p, "ok", local[p])
         ELSE /\ Return(p, "FileAccessError", local[p])
              /\ UNCHANGED host_files
    /\ UNCHANGED <<server_config, clients, config_file, iface, iptables_rules, minio,
                   next_peer, next_server_key, awg_server_endpoint, row_delete_raised,
                   docker>>

\* read_file, line 25: aiofiles.open(path); started_after: the writers that
\* are in the middle of a write when the file is opened
read_file_open(p) ==
    /\ pc[p] = "f_idle"
    /\ LET loc == [InitLocal EXCEPT !.op = "read_file", !.document0 = TargetContent,
                                    !.started_after = Writing]
       IN  \E ok \in BOOLEAN :
             IF ok /\ host_files.target # 0
             THEN Goto(p, "r_read", [loc EXCEPT !.fd = host_files.target])
             ELSE Return(p, "FileAccessError", loc)
    /\ UNCHANGED <<server_config, clients, config_file, iface, iptables_rules, minio,
                   next_peer, next_server_key, awg_server_endpoint, row_delete_raised,
                   docker, host_files, _docker_client, closes, container_tmp>>

\* read_file, line 26: f.read(); the text of the open file is read one system
\* call at a time up to the end of the file
read_file_read(p) ==
    /\ pc[p] = "r_read"
    /\ LET file == host_files.inodes[local[p].fd]
           done == Len(local[p].data)
           upto == IF done + WriteChunk < Len(file) THEN done + WriteChunk ELSE Len(file)
           data == local[p].data \o SubSeq(file, done + 1, upto)
       IN  \E ok \in BOOLEAN :
             IF ~ok THEN Return(p, "FileAccessError", local[p])
             ELSE IF upto = Len(file) THEN Return(p, "ok", [local[p] EXCEPT !.data = data])
             ELSE Goto(p, "r_read", [local[p] EXCEPT !.data = data])
    /\ UNCHANGED <<server_config, clients, config_file, iface, iptables_rules, minio,
                   next_peer, next_server_key, awg_server_endpoint, row_delete_raised,
                   docker, host_files, _docker_client, closes, container_tmp>>

NextWriteFile ==
    \E p \in Procs :
        \/ \E content \in FileContents : write_file_mkdir(p, content)
        \/ write_file_open(p)
        \/ write_file_write(p)
        \/ write_file_close(p)
        \/ write_file_replace(p)
        \/ read_file_open(p)
        \/ read_file_read(p)

SpecWriteFile == InitWriteFile /\ [][NextWriteFile]_vars

\* the write_file calls that returned without raising
Renamed == {q \in Procs : pc[q] = "done" /\ local[q].op = "write_file" /\ local[q].result = "ok"}

\* C22: write_file is atomic for readers.  The file at the target path always
\* holds a complete text; a reader that returns has read exactly the text the
\* target held when it opened the file, a complete one, whatever writes went
\* on meanwhile; and after a write_file call that failed the target holds
\* what it held when the call began, or the complete text of a call that
\* succeeded, never the file of the failed call
C22_WriteFileAtomicForReaders ==
    /\ host_files.target # 0 => TargetContent \in FileContents
    /\ \A p \in Procs :
          (pc[p] = "done" /\ local[p].op = "read_file" /\ local[p].result = "ok")
          => local[p].data = local[p].document0 /\ local[p].data \in FileContents
    /\ \A p \in Procs :
          (pc[p] = "done" /\ local[p].op = "write_file" /\ local[p].result = "FileAccessError")
          => /\ TargetContent \in {local[p].document0} \cup {local[q].content : q \in Renamed}
             /\ local[p].fd # 0 => host_files.target # local[p].fd

\* a reader opened the document while a writer had written a part of its
\* temporary file, and returned the previous text after that writer's rename;
\* another write_file call failed after writing
C22_Witness ==
    \E r, w, f \in Procs :
        /\ pc[r] = "done" /\ local[r].op = "read_file" /\ local[r].result = "ok"
        /\ w \in local[r].started_after /\ w \in Renamed
        /\ local[w].content # local[r].data
        /\ TargetContent = local[w].content
        /\ pc[f] = "done" /\ local[f].op = "write_file" /\ local[f].result = "FileAccessError"
        /\ local[f].fd # 0 /\ host_files.inodes[local[f].fd] # <<>>

\* ----------------------------- POST /setup with the container state machine
\* the values of State.Status of a container; "absent": there is no container
\* of that name (get_container_status returns None)
ContainerStatuses == {"absent", "created", "running", "restarting", "exited", "paused"}

\* the state the call of handler p found when it began
Snapshot ==
    [server_config |-> server_config, config_file |-> config_file,
     iptables_rules |-> iptables_rules, iface |-> iface, docker |-> docker]

\* the engine and the container change outside the program: the engine goes
\* away or comes back, the container is started, stopped, removed, restarts
docker_engine_step ==
    /\ UNCHANGED <<_docker_client, closes, container_tmp>>
    /\ \E available \in BOOLEAN, status \in ContainerStatuses :
         /\ available # docker.available \/ status # docker.status
         /\ available = docker.available \/ status = docker.status
         /\ docker' = [docker EXCEPT !.available = available, !.status = status]
    /\ UNCHANGED <<server_config, clients, config_file, iface, iptables_rules, minio,
                   next_peer, next_server_key, awg_server_endpoint, row_delete_raised,
                   host_files, pc, local>>

\* router lines 48-57: is_docker_available; DockerUnavailableError when the
\* engine does not answer; the parameters are validated
setup_server_router_check(p, subnet) ==
    /\ pc[p] = "idle"
    /\ MayStart(p)
    /\ next_server_key < MaxSetups
    /\ LET loc == [InitLocal EXCEPT !.op = "setup", !.document0 = config_file,
                                    !.before = Snapshot,
                                    !.server = [NoServer EXCEPT !.awg_subnet_ip = subnet,
                                                                !.container_name = ContainerName]]
       IN  IF docker.available THEN Goto(p, "s_available", loc)
           ELSE Return(p, "DockerUnavailableError", loc)
    /\ UNCHANGED <<server_config, clients, config_file, iface, iptables_rules, minio,
                   next_peer, next_server_key, awg_server_endpoint, row_delete_raised,
                   docker, host_files, _docker_client, closes, container_tmp>>

\* variant of setup_server_is_docker_available: the answer of the engine is
\* not looked at
setup_server_is_docker_available_unchecked(p) ==
    /\ pc[p] = "s_available"
    /\ Goto(p, "s_image", local[p])
    /\ UNCHANGED <<server_config, clients, config_file, iface, iptables_rules, minio,
                   next_peer, next_server_key, awg_server_endpoint, row_delete_raised,
                   docker, host_files, _docker_client, closes, container_tmp>>

\* setup_server, lines 46-47: is_docker_available; AWGServiceError, which the
\* router turns into ServerConfigurationError
setup_server_is_docker_available(p) ==
    /\ pc[p] = "s_available"
    /\ IF docker.available THEN Goto(p, "s_image", local[p])
       ELSE Return(p, "ServerConfigurationError",
                   [local[p] EXCEPT !.exc = "AWGServiceError"])
    /\ UNCHANGED <<server_config, clients, config_file, iface, iptables_rules, minio,
                   next_peer, next_server_key, awg_server_endpoint, row_delete_raised,
                   docker, host_files, _docker_client, closes, container_tmp>>

\* setup_server, line 49: image_exists
setup_server_image_exists(p) ==
    /\ pc[p] = "s_image"
    /\ IF ~docker.available
       THEN Return(p, "ServerConfigurationError",
                   [local[p] EXCEPT !.exc = "DockerServiceError",
                                    !.log = Log(p, "image_exists", "raise")])
       ELSE Goto(p, IF docker.image THEN "s_status" ELSE "s_pull",
                 [local[p] EXCEPT !.log = Log(p, "image_exists", "ok")])
    /\ UNCHANGED <<server_config, clients, config_file, iface, iptables_rules, minio,
                   next_peer, next_server_key, awg_server_endpoint, row_delete_raised,
                   docker, host_files, _docker_client, closes, container_tmp>>

\* setup_server, line 50: pull_image; ImageNotFoundError on failure
setup_server_pull_image(p) ==
    /\ UNCHANGED <<_docker_client, closes, container_tmp>>
    /\ pc[p] = "s_pull"
    /\ \E ok \in BOOLEAN :
         IF ok /\ docker.available
         THEN /\ docker' = [docker EXCEPT !.image = TRUE]
              /\ Goto(p, "s_status", [local[p] EXCEPT !.log = Log(p, "pull_image", "ok")])
         ELSE /\ Return(p, "ServerConfigurationError",
                        [local[p] EXCEPT !.exc = "ImageNotFoundError",
                                         !.log = Log(p, "pull_image", "raise")])
              /\ UNCHANGED docker
    /\ UNCHANGED <<server_config, clients, config_file, iface, iptables_rules, minio,
                   next_peer, next_server_key, awg_server_endpoint, row_delete_raised,
                   host_files>>

\* variant of setup_server_get_container_status: a container in status
\* "created" is taken for a running one
setup_server_get_container_status_created_proceeds(p) ==
    /\ pc[p] = "s_status"
    /\ IF ~docker.available
       THEN Return(p, "ServerConfigurationError",
                   [local[p] EXCEPT !.exc = "DockerServiceError",
                                    !.log = Log(p, "get_container_status", "raise")])
       ELSE Goto(p, CASE docker.status = "absent" -> "s_create"
                      [] docker.status \in {"running", "created"} -> "s_keys"
                      [] docker.status = "restarting" -> "s_wait"
                      [] OTHER -> "s_start",
                 [local[p] EXCEPT !.status = docker.status,
                                  !.log = Log(p, "get_container_status", docker.status)])
    /\ UNCHANGED <<server_config, clients, config_file, iface, iptables_rules, minio,
                   next_peer, next_server_key, awg_server_endpoint, row_delete_raised,
                   docker, host_files, _docker_client, closes, container_tmp>>

\* setup_server, lines 52-79: get_container_status and the branch on it
setup_server_get_container_status(p) ==
    /\ pc[p] = "s_status"
    /\ IF ~docker.available
       THEN Return(p, "ServerConfigurationError",
                   [local[p] EXCEPT !.exc = "DockerServiceError",
                                    !.log = Log(p, "get_container_status", "raise")])
       ELSE Goto(p, CASE docker.status = "absent" -> "s_create"
                      [] docker.status = "running" -> "s_keys"
                      [] docker.status \in {"restarting", "created"} -> "s_wait"
                      [] OTHER -> "s_start",
                 [local[p] EXCEPT !.status = docker.status,
                                  !.log = Log(p, "get_container_status", docker.status)])
    /\ UNCHANGED <<server_config, clients, config_file, iface, iptables_rules, minio,
                   next_peer, next_server_key, awg_server_endpoint, row_delete_raised,
                   docker, host_files, _docker_client, closes, container_tmp>>

\* setup_server, lines 55-70: create_container; a container of that name
\* that appeared in the meantime is a conflict
setup_server_create_container(p) ==
    /\ UNCHANGED <<_docker_client, closes, container_tmp>>
    /\ pc[p] = "s_create"
    /\ IF docker.available /\ docker.status = "absent"
       THEN /\ docker' = [docker EXCEPT !.status = "created"]
            /\ Goto(p, "s_start", [local[p] EXCEPT !.log = Log(p, "create_container", "ok")])
       ELSE /\ Return(p, "ServerConfigurationError",
                      [local[p] EXCEPT !.exc = "DockerServiceError",
                                       !.log = Log(p, "create_container", "raise")])
            /\ UNCHANGED docker
    /\ UNCHANGED <<server_config, clients, config_file, iface, iptables_rules, minio,
                   next_peer, next_server_key, awg_server_endpoint, row_delete_raised,
                   host_files>>

\* setup_server, lines 71 and 78: start_container; ContainerNotFoundError when
\* the container is gone
setup_server_start_container(p) ==
    /\ UNCHANGED <<_docker_client, closes, container_tmp>>
    /\ pc[p] = "s_start"
    /\ IF ~docker.available
       THEN /\ Return(p, "ServerConfigurationError",
                      [local[p] EXCEPT !.exc = "DockerServiceError",
                                       !.log = Log(p, "start_container", "raise")])
            /\ UNCHANGED docker
       ELSE IF docker.status = "absent"
       THEN /\ Return(p, "ServerConfigurationError",
                      [local[p] EXCEPT !.exc = "ContainerNotFoundError",
                                       !.log = Log(p, "start_container", "raise")])
            /\ UNCHANGED docker
       ELSE /\ docker' = [docker EXCEPT !.status = "running"]
            /\ Goto(p, "s_wait", [local[p] EXCEPT !.log = Log(p, "start_container", "ok")])
    /\ UNCHANGED <<server_config, clients, config_file, iface, iptables_rules, minio,
                   next_peer, next_server_key, awg_server_endpoint, row_delete_raised,
                   host_files>>

\* the outcome of one round of the loop of wait_for_container_ready, lines
\* 121-135: "running", "ContainerNotFoundError", "DockerServiceError" (the
\* engine does not answer), "Timeout" (the DockerServiceError of line 131),
\* "sleep".  Variant of wait_round: the elapsed time is not looked at
wait_round_always_sleeps(elapsed) ==
    IF ~docker.available THEN "DockerServiceError"
    ELSE IF docker.status = "running" THEN "running"
    ELSE IF docker.status = "absent" THEN "ContainerNotFoundError"
    ELSE "sleep"

\* the outcome of one round of the loop of wait_for_container_ready
wait_round(elapsed) ==
    IF ~docker.available THEN "DockerServiceError"
    ELSE IF docker.status = "running" THEN "running"
    ELSE IF docker.status = "absent" THEN "ContainerNotFoundError"
    ELSE IF elapsed >= WaitTimeout THEN "Timeout"
    ELSE "sleep"

\* the clock after a round that sleeps: asyncio.sleep(1) and the call of the
\* engine take between 1 and MaxPollTime seconds; the clock is not followed
\* past the timeout
Later(elapsed) ==
    {IF elapsed + d > WaitTimeout THEN WaitTimeout ELSE elapsed + d : d \in 1..MaxPollTime}

\* setup_server, lines 72, 76 and 79: one round of wait_for_container_ready
\* (container_manager.py lines 120-135)
wait_for_container_ready(p) ==
    /\ pc[p] = "s_wait"
    /\ LET round == wait_round(local[p].elapsed)
       IN  CASE round = "running" ->
                  Goto(p, "s_keys", [local[p] EXCEPT !.log = Log(p, "wait_for_container_ready", "running")])
             [] round = "sleep" ->
                  \E t \in Later(local[p].elapsed) : Goto(p, "s_wait", [local[p] EXCEPT !.elapsed = t])
             [] OTHER ->
                  Return(p, "ServerConfigurationError",
                         [local[p] EXCEPT !.exc = round,
                                          !.log = Log(p, "wait_for_container_ready", "raise")])
    /\ UNCHANGED <<server_config, clients, config_file, iface, iptables_rules, minio,
                   next_peer, next_server_key, awg_server_endpoint, row_delete_raised,
                   docker, host_files, _docker_client, closes, container_tmp>>

\* a server that was never set up; the engine and the container are in any state
InitSetup ==
    /\ server_config = {}
    /\ clients = {}
    /\ config_file = [exists |-> FALSE, content |-> <<>>]
    /\ iface = [up |-> FALSE, peers |-> {}]
    /\ iptables_rules = 0
    /\ minio = {}
    /\ next_peer = 0
    /\ next_server_key = 0
    /\ awg_server_endpoint = "vpn.example.org"
    /\ row_delete_raised = FALSE
    /\ docker \in [available : BOOLEAN, image : BOOLEAN, status : ContainerStatuses]
    /\ host_files = NoFiles
    /\ _docker_client = 0
    /\ closes = <<>>
    /\ container_tmp = FALSE
    /\ pc = [p \in 1..NumProcs |-> "idle"]
    /\ local = [p \in 1..NumProcs |-> InitLocal]

NextSetup ==
    \/ docker_engine_step
    \/ \E p \in Procs :
        \/ \E subnet \in Subnets : setup_server_router_check(p, subnet)
        \/ setup_server_is_docker_available(p)
        \/ setup_server_image_exists(p)
        \/ setup_server_pull_image(p)
        \/ setup_server_get_container_status(p)
        \/ setup_server_create_container(p)
        \/ setup_server_start_container(p)
        \/ wait_for_container_ready(p)
        \/ generate_server_keys(p)
        \/ setup_server_write(p)
        \/ _ensure_interface_up(p)
        \/ _configure_iptables(p)
        \/ get_or_create_server_config(p)
        \/ respond(p)

SpecSetup == InitSetup /\ [][NextSetup]_vars

\* the setup call of handler p returned the bundle and the row was written
SetupSucceeded(p) == Returned(p, "setup") /\ local[p].result = "ok"

\* the call of handler p began on a server that an earlier setup call with
\* the same parameters had set up
IsRetry(p) ==
    /\ local[p].before.server_config # {}
    /\ \A r \in local[p].before.server_config :
          /\ r.status = "configured"
          /\ r.awg_subnet_ip = local[p].server.awg_subnet_ip
          /\ r.container_name = local[p].server.container_name

\* C23: a successful setup call on a server that an earlier call with the
\* same parameters set up leaves the server keypair, the document and the
\* NAT/forwarding rules as the earlier call left them, and creates no container
C23_SetupIdempotentOnRetry ==
    \A p \in Procs :
        (SetupSucceeded(p) /\ IsRetry(p))
        => /\ server_config = local[p].before.server_config
           /\ config_file = local[p].before.config_file
           /\ iptables_rules = local[p].before.iptables_rules
           /\ ~Logged(p, "create_container", "ok")

\* the part of C23 the code keeps when the container is still there: the
\* retry creates no second container and leaves one row
C23_RetryKeepsContainer ==
    \A p \in Procs :
        (SetupSucceeded(p) /\ IsRetry(p) /\ local[p].status # "absent")
        => ~Logged(p, "create_container", "ok") /\ Cardinality(server_config) = 1

\* the container calls of the setup call of handler p, in order
ContainerCalls(p) ==
    SelectSeq(local[p].log,
              LAMBDA e : e[1] \in {"create_container", "start_container", "wait_for_container_ready"})

\* the container calls the state machine prescribes for a status
ExpectedCalls(status) ==
    CASE status = "absent" -> <<"create_container", "start_container", "wait_for_container_ready">>
      [] status = "running" -> <<>>
      [] status \in {"restarting", "created"} -> <<"wait_for_container_ready">>
      [] OTHER -> <<"start_container", "wait_for_container_ready">>

\* key generation of the setup call of handler p has begun
PastContainerStage(p) ==
    /\ local[p].op = "setup"
    /\ \/ pc[p] \in {"s_keys", "s_write", "s_interface", "s_iptables", "s_upsert"}
       \/ pc[p] = "done" /\ local[p].result = "ok"
       \/ /\ pc[p] = "done" /\ local[p].log # <<>>
          /\ local[p].log[Len(local[p].log)][1] \in
                {"generate_server_keys", "write_file", "_ensure_interface_up",
                 "_configure_iptables", "upsert"}

\* C24: the container calls of a setup call are those the state machine
\* prescribes for the status it found (absent: create, start, wait; running:
\* none; restarting or created: wait; any other: start, wait), each made only
\* after the one before succeeded; key generation begins only after all of
\* them, with the container observed running; a call that ends before that
\* has failed with a typed error
C24_ContainerStateMachine ==
    \A p \in Procs :
        local[p].op = "setup"
        => LET calls == ContainerCalls(p)
               expected == ExpectedCalls(local[p].status)
           IN  /\ local[p].status = "" => calls = <<>>
               /\ local[p].status # ""
                  => /\ Len(calls) <= Len(expected)
                     /\ \A i \in 1..Len(calls) :
                           /\ calls[i][1] = expected[i]
                           /\ i < Len(calls) => calls[i][2] \in {"ok", "running"}
               /\ PastContainerStage(p)
                  => /\ Len(calls) = Len(expected)
                     /\ \A i \in 1..Len(calls) : calls[i][2] \in {"ok", "running"}
                     /\ \/ local[p].status = "running"
                        \/ Logged(p, "wait_for_container_ready", "running")
               /\ (pc[p] = "done" /\ ~PastContainerStage(p))
                  => local[p].result \in {"DockerUnavailableError", "ServerConfigurationError"}

\* a setup call found no container, created and started one, waited through
\* at least one sleep and went on to key generation
C24_Witness ==
    \E p \in Procs :
        /\ PastContainerStage(p)
        /\ local[p].status = "absent"
        /\ local[p].elapsed > 0

\* ------------------------------------------- wait_for_container_ready alone
\* wait_for_container_ready has just been called; the engine and the
\* container are in any state
InitWait ==
    /\ server_config = {}
    /\ clients = {}
    /\ config_file = [exists |-> FALSE, content |-> <<>>]
    /\ iface = [up |-> FALSE, peers |-> {}]
    /\ iptables_rules = 0
    /\ minio = {}
    /\ next_peer = 0
    /\ next_server_key = 0
    /\ awg_server_endpoint = ""
    /\ row_delete_raised = FALSE
    /\ docker \in [available : BOOLEAN, image : {TRUE}, status : ContainerStatuses]
    /\ host_files = NoFiles
    /\ _docker_client = 0
    /\ closes = <<>>
    /\ container_tmp = FALSE
    /\ pc = [p \in 1..NumProcs |-> "s_wait"]
    /\ local = [p \in 1..NumProcs |-> [InitLocal EXCEPT !.op = "setup"]]

NextWait ==
    \/ docker_engine_step
    \/ \E p \in Procs : wait_for_container_ready(p)

SpecWait == InitWait /\ [][NextWait]_vars

\* the event loop runs the coroutine: a round that can be taken is taken
SpecWaitFair == SpecWait /\ \A p \in 1..NumProcs : WF_vars(wait_for_container_ready(p))

\* C25: every round of wait_for_container_ready that ends the call does so
\* for the reason claimed: success exactly when the container is observed
\* running, ContainerNotFoundError exactly when it is observed absent, the
\* timeout error only when it is neither and the timeout has elapsed; a round
\* that does not end the call moves the clock on; and the call ends
C25_WaitTerminates ==
    /\ [][\A p \in Procs :
            (pc[p] = "s_wait" /\ (pc'[p] # pc[p] \/ local'[p] # local[p]))
            => /\ pc'[p] = "s_keys" <=> (docker.available /\ docker.status = "running")
               /\ pc'[p] = "s_keys" => Len(local'[p].log) = 1
                                       /\ local'[p].log[1] = <<"wait_for_container_ready", "running">>
               /\ (pc'[p] = "done" /\ local'[p].exc = "ContainerNotFoundError")
                     <=> (docker.available /\ docker.status = "absent")
               /\ (pc'[p] = "done" /\ local'[p].exc = "Timeout")
                     <=> /\ docker.available /\ docker.status \notin {"running", "absent"}
                         /\ local[p].elapsed >= WaitTimeout
               /\ (pc'[p] = "done" /\ local'[p].exc = "DockerServiceError") <=> ~docker.available
               /\ pc'[p] = "s_wait" => local'[p].elapsed > local[p].elapsed]_vars
    /\ <>(\A p \in 1..NumProcs : pc[p] # "s_wait")

\* the call ended with the timeout error after the whole timeout
C25_Witness ==
    \E p \in Procs :
        pc[p] = "done" /\ local[p].exc = "Timeout" /\ local[p].elapsed >= WaitTimeout

\* the setup call of handler p ended at one of the steps before the row is
\* written: the engine check, the image, the container, its readiness, the
\* keys, the document, the interface, the NAT/forwarding command
SetupStepFailed(p) ==
    /\ Returned(p, "setup")
    /\ local[p].result # "ok"
    /\ ~Logged(p, "upsert", "raise")

\* C26: a setup call that fails at any step before the row is written fails
\* with an error and leaves table server_config as the call found it: no row
\* when there was none, the same row when there was one
C26_FailedSetupKeepsProfile ==
    \A p \in Procs :
        /\ (local[p].op = "setup" /\ RaiseCount(p) > 0) => (pc[p] = "done" /\ local[p].result # "ok")
        /\ SetupStepFailed(p)
           => /\ local[p].result \in {"DockerUnavailableError", "ServerConfigurationError"}
              /\ server_config = local[p].before.server_config

\* a setup call on a server that holds a row changed the document and failed
\* at the NAT/forwarding command
C26_Witness ==
    \E p \in Procs :
        /\ SetupStepFailed(p)
        /\ Logged(p, "_configure_iptables", "raise")
        /\ local[p].before.server_config # {}
        /\ config_file # local[p].before.config_file

\* handler p makes one of the two engine checks of POST /setup in this step
\* (router line 49, or setup_server line 46) and the engine does not answer
EngineCheckFails(p) ==
    /\ ~docker.available
    /\ pc'[p] # pc[p]
    /\ \/ pc[p] = "idle" /\ local'[p].op = "setup"
       \/ pc[p] = "s_available"

\* C27: when the engine is unreachable at an engine check of setup, the call
\* ends in that step with the error of the check (DockerUnavailableError from
\* the router's check, AWGServiceError from that of setup_server) having made
\* no other call: nothing pulled, inspected, created, started or executed,
\* the document, the interface, the rules and the row untouched
C27_EngineUnreachableFailsFast ==
    [][\A p \in Procs :
          EngineCheckFails(p)
          => /\ pc'[p] = "done"
             /\ local'[p].log = <<>>
             /\ IF pc[p] = "idle"
                THEN local'[p].result = "DockerUnavailableError"
                ELSE /\ local'[p].result = "ServerConfigurationError"
                     /\ local'[p].exc = "AWGServiceError"
             /\ UNCHANGED <<docker, config_file, host_files, iface, iptables_rules,
                            server_config>>]_vars

\* a setup call on a configured server ended with DockerUnavailableError
C27_Witness ==
    \E p \in Procs :
        /\ Returned(p, "setup")
        /\ local[p].result = "DockerUnavailableError"
        /\ local[p].before.server_config # {}
        /\ ~docker.available

\* a setup call ended at the engine check of setup_server
C27_WitnessService ==
    \E p \in Procs :
        /\ Returned(p, "setup")
        /\ local[p].exc = "AWGServiceError"
        /\ local[p].log = <<>>

\* the row a successful setup call of handler p stores
Bundle(p) ==
    [local[p].server EXCEPT !.id = SINGLETON_SERVER_CONFIG_ID, !.status = "configured"]

\* handler p ran every step of setup_server and the database did not fail
SetupReachedStore(p) ==
    /\ Returned(p, "setup")
    /\ Logged(p, "_configure_iptables", "ok")
    /\ ~(Logged(p, "upsert", "raise") /\ local[p].exc = "")

\* C28: a setup call whose steps all succeeded, the database answering,
\* succeeds and leaves exactly one row in table server_config, stored under
\* the fixed identifier with status configured and holding the bundle of the
\* call: the first call creates the row, a later one updates it in place
C28_SetupStoresSingletonRow ==
    \A p \in Procs :
        SetupReachedStore(p)
        => /\ local[p].result = "ok"
           /\ server_config = {Bundle(p)}

\* what holds of the table whenever the lookup answers: never more than one
\* row, never another identifier or status, and after a successful setup
\* call the bundle of that call
C28_AtMostTheSingletonRow ==
    /\ Cardinality(server_config) <= 1
    /\ \A r \in server_config :
          r.id = SINGLETON_SERVER_CONFIG_ID /\ r.status = "configured"
    /\ \A p \in Procs : SetupSucceeded(p) => server_config = {Bundle(p)}

\* ------------------------------------------------- the portable link codec
\* Bytes are the integers 0..255.  A character of a link is the index of a
\* base64url character in the alphabet (0..63), PAD for "=", and SCHEME for
\* the prefix "vpn://", which contains no character of the alphabet.
PAD == 64

SCHEME == 65

\* int.to_bytes(4, byteorder='big')
to_bytes4(n) ==
    <<(n \div 16777216) % 256, (n \div 65536) % 256, (n \div 256) % 256, n % 256>>

\* int.from_bytes(b, byteorder='big'), of any number of bytes
RECURSIVE from_bytes(_)
from_bytes(b) ==
    IF b = <<>> THEN 0 ELSE from_bytes(SubSeq(b, 1, Len(b) - 1)) * 256 + b[Len(b)]

\* b[:n] and b[n:]
Take(b, n) == SubSeq(b, 1, IF n < Len(b) THEN n ELSE Len(b))

Drop(b, n) == SubSeq(b, n + 1, Len(b))

\* base64.urlsafe_b64encode: three bytes become four characters, the last
\* group is filled with "="
RECURSIVE urlsafe_b64encode(_)
urlsafe_b64encode(b) ==
    CASE Len(b) = 0 -> <<>>
      [] Len(b) = 1 -> <<b[1] \div 4, (b[1] % 4) * 16, PAD, PAD>>
      [] Len(b) = 2 -> <<b[1] \div 4, (b[1] % 4) * 16 + b[2] \div 16, (b[2] % 16) * 4, PAD>>
      [] OTHER -> <<b[1] \div 4, (b[1] % 4) * 16 + b[2] \div 16,
                    (b[2] % 16) * 4 + b[3] \div 64, b[3] % 64>>
                  \o urlsafe_b64encode(Drop(b, 3))

\* str.rstrip("=")
RECURSIVE rstrip_pad(_)
rstrip_pad(text) ==
    IF text # <<>> /\ text[Len(text)] = PAD
    THEN rstrip_pad(SubSeq(text, 1, Len(text) - 1)) ELSE text

\* str.replace("vpn://", "")
remove_scheme(text) == SelectSeq(text, LAMBDA c : c # SCHEME)

\* "=" * n
RECURSIVE Pads(_)
Pads(n) == IF n = 0 THEN <<>> ELSE <<PAD>> \o Pads(n - 1)

\* binascii.a2b_base64 (not strict).  The loop reads the text character by
\* character: a data character joins the open group of four (quad_pos is
\* the number of characters in it) and every character after the first of a
\* group completes a byte; a "=" is skipped, except that the loop stops at a
\* "=" when the open group holds two or three characters and, with the "="
\* read since the last data character, four are reached; characters outside
\* the alphabet are skipped.  A text that ends inside a group raises.
a2b_base64(text) ==
    LET IsData(j) == text[j] < PAD
        quad_pos(i) == Cardinality({j \in 1..(i - 1) : IsData(j)}) % 4
        pads(i) == Cardinality({j \in 1..i :
                                  /\ text[j] = PAD
                                  /\ \A k \in j..i : ~IsData(k)})
        stops == {i \in 1..Len(text) :
                    text[i] = PAD /\ quad_pos(i) >= 2 /\ quad_pos(i) + pads(i) >= 4}
        end == IF stops = {} THEN Len(text) + 1
               ELSE CHOOSE i \in stops : \A j \in stops : i <= j
        chars == SelectSeq(SubSeq(text, 1, end - 1), LAMBDA c : c < PAD)
        size == (Len(chars) \div 4) * 3
                + (IF Len(chars) % 4 = 0 THEN 0 ELSE (Len(chars) % 4) - 1)
        byte(k) ==
            LET g == 4 * ((k - 1) \div 3)
            IN  CASE (k - 1) % 3 = 0 -> chars[g + 1] * 4 + chars[g + 2] \div 16
                  [] (k - 1) % 3 = 1 -> (chars[g + 2] % 16) * 16 + chars[g + 3] \div 4
                  [] OTHER -> (chars[g + 3] % 4) * 64 + chars[g + 4]
    IN  IF stops = {} /\ Len(chars) % 4 # 0
        THEN [raised |-> "binascii.Error", data |-> <<>>]
        ELSE [raised |-> "", data |-> [k \in 1..size |-> byte(k)]]

\* base64.urlsafe_b64decode
urlsafe_b64decode(text) == a2b_base64(text)

\* data[1] + ... + data[i]
RECURSIVE SumTo(_, _)
SumTo(data, i) == IF i = 0 THEN 0 ELSE SumTo(data, i - 1) + data[i]

\* the sum of the sums SumTo(data, 1), ..., SumTo(data, i)
RECURSIVE SumOfSums(_, _)
SumOfSums(data, i) == IF i = 0 THEN 0 ELSE SumOfSums(data, i - 1) + SumTo(data, i)

\* zlib.adler32: a is 1 plus the sum of the bytes, b the sum of the values a
\* takes after each byte, both modulo 65521; the value is b * 2^16 + a
adler32(data) ==
    ((Len(data) + SumOfSums(data, Len(data))) % 65521) * 65536
    + ((1 + SumTo(data, Len(data))) % 65521)

\* the second byte of a zlib stream written at a compression level
zlib_flg(level) ==
    CASE level \in {0, 1} -> 1
      [] level \in 2..5 -> 94
      [] level \in {-1, 6} -> 156
      [] OTHER -> 218

\* zlib.compress(data, level): a zlib stream (RFC 1950) of data: the two
\* header bytes, the deflate body, the Adler-32 checksum of data.  The body
\* is taken in the stored form of deflate (RFC 1951, one final block of type
\* 00: LEN, its complement, the bytes), the simplest body that
\* zlib.decompress accepts; the Huffman coding that the library chooses at
\* levels above 0 is not modelled.
zlib_compress(data, level) ==
    <<120, zlib_flg(level)>>
    \o <<1, Len(data) % 256, Len(data) \div 256,
         255 - (Len(data) % 256), 255 - (Len(data) \div 256)>>
    \o data
    \o to_bytes4(adler32(data))

\* zlib.decompress(b): the header is checked, the stored block is read, the
\* checksum is compared; bytes after the stream are ignored
zlib_decompress(b) ==
    LET LEN == b[4] + 256 * b[5]
        data == SubSeq(b, 8, 7 + LEN)
    IN  IF /\ Len(b) >= 11
           /\ b[1] % 16 = 8 /\ b[1] \div 16 <= 7
           /\ (b[1] * 256 + b[2]) % 31 = 0
           /\ (b[2] \div 32) % 2 = 0
           /\ b[3] = 1
           /\ b[6] = 255 - b[4] /\ b[7] = 255 - b[5]
           /\ Len(b) >= 11 + LEN
           /\ SubSeq(b, 8 + LEN, 11 + LEN) = to_bytes4(adler32(data))
        THEN [raised |-> "", data |-> data]
        ELSE [raised |-> "zlib.error", data |-> <<>>]

\* the characters of JSON text
QUOTE == 34

COMMA == 44

COLON == 58

LBRACE == 123

RBRACE == 125

LF == 10

SPACE == 32

\* a JSON string of the bytes s (letters: no escapes needed)
json_string(s) == <<QUOTE>> \o s \o <<QUOTE>>

\* the members of an object joined by sep, each as indent "key" colon "value"
RECURSIVE json_members(_, _, _, _)
json_members(config, indent, colon, sep) ==
    IF config = <<>> THEN <<>>
    ELSE indent \o json_string(config[1][1]) \o colon \o json_string(config[1][2])
         \o (IF Len(config) = 1 THEN <<>> ELSE sep)
         \o json_members(Tail(config), indent, colon, sep)

\* json.dumps(data, separators=(',', ':')) of an object of strings
json_dumps_compact(data) ==
    <<LBRACE>> \o json_members(data, <<>>, <<COLON>>, <<COMMA>>) \o <<RBRACE>>

\* json.dumps(config, indent=4) of an object of strings
json_dumps_indent(config) ==
    IF config = <<>> THEN <<LBRACE, RBRACE>>
    ELSE <<LBRACE, LF>>
         \o json_members(config, <<SPACE, SPACE, SPACE, SPACE>>, <<COLON, SPACE>>, <<COMMA, LF>>)
         \o <<LF, RBRACE>>

\* the first position from i on that holds no JSON whitespace
RECURSIVE skip_ws(_, _)
skip_ws(b, i) ==
    IF i <= Len(b) /\ b[i] \in {SPACE, LF, 13, 9} THEN skip_ws(b, i + 1) ELSE i

\* the position of the quote that closes the string opened before i, or 0
\* when there is none (escapes and control characters are not accepted)
RECURSIVE string_end(_, _)
string_end(b, i) ==
    IF i > Len(b) \/ b[i] = 92 \/ b[i] < SPACE THEN 0
    ELSE IF b[i] = QUOTE THEN i
    ELSE string_end(b, i + 1)

\* the pairs with key set to value: a repeated key keeps its place and takes
\* the later value
put(pairs, key, value) ==
    IF \E j \in 1..Len(pairs) : pairs[j][1] = key
    THEN [j \in 1..Len(pairs) |-> IF pairs[j][1] = key THEN <<key, value>> ELSE pairs[j]]
    ELSE Append(pairs, <<key, value>>)

JSONDecodeError == [raised |-> "JSONDecodeError", config |-> <<>>]

\* the members of an object from position i (the start of a key) on
RECURSIVE parse_members(_, _, _)
parse_members(b, i, pairs) ==
    LET k_end == IF i <= Len(b) /\ b[i] = QUOTE THEN string_end(b, i + 1) ELSE 0
        colon == skip_ws(b, k_end + 1)
        v_start == skip_ws(b, colon + 1)
        v_end == IF v_start <= Len(b) /\ b[v_start] = QUOTE
                 THEN string_end(b, v_start + 1) ELSE 0
        after == skip_ws(b, v_end + 1)
        now == put(pairs, SubSeq(b, i + 1, k_end - 1), SubSeq(b, v_start + 1, v_end - 1))
    IN  IF k_end = 0 \/ colon > Len(b) \/ b[colon] # COLON \/ v_end = 0 \/ after > Len(b)
        THEN JSONDecodeError
        ELSE IF b[after] = RBRACE
        THEN IF skip_ws(b, after + 1) > Len(b)
             THEN [raised |-> "", config |-> now] ELSE JSONDecodeError
        ELSE IF b[after] = COMMA
        THEN parse_members(b, skip_ws(b, after + 1), now)
        ELSE JSONDecodeError

\* json.loads(b, object_pairs_hook=OrderedDict) for objects of strings; any
\* other text is reported as JSONDecodeError
json_loads(b) ==
    LET open == skip_ws(b, 1)
        first == skip_ws(b, open + 1)
    IN  IF open > Len(b) \/ b[open] # LBRACE \/ first > Len(b) THEN JSONDecodeError
        ELSE IF b[first] = RBRACE
        THEN IF skip_ws(b, first + 1) > Len(b)
             THEN [raised |-> "", config |-> <<>>] ELSE JSONDecodeError
        ELSE parse_members(b, first, <<>>)

\* bytes.decode() followed by json.loads: a byte that is not ASCII is taken
\* as undecodable
json_loads_text(b) ==
    IF \E i \in 1..Len(b) : b[i] >= 128
    THEN [raised |-> "UnicodeDecodeError", config |-> <<>>]
    ELSE json_loads(b)

\* variant of Repad: the text is decoded as received
Repad_none(encoded_data) == encoded_data

\* decode_config, lines 9-10: padding = 4 - (len % 4) characters "=" are
\* appended
Repad(encoded_data) == encoded_data \o Pads(4 - (Len(encoded_data) % 4))

\* decode_config
decode_config(encoded_string) ==
    LET encoded_data == Repad(remove_scheme(encoded_string))
        compressed_data == urlsafe_b64decode(encoded_data)
        original_data_len == from_bytes(Take(compressed_data.data, 4))
        decompressed_data == zlib_decompress(Drop(compressed_data.data, 4))
    IN  IF compressed_data.raised # ""
        THEN [raised |-> compressed_data.raised, config |-> <<>>]
        ELSE IF decompressed_data.raised # ""
        THEN json_loads_text(compressed_data.data)
        ELSE IF Len(decompressed_data.data) # original_data_len
        THEN [raised |-> "ValueError", config |-> <<>>]
        ELSE json_loads(decompressed_data.data)

\* the link of the bytes of a JSON text compressed at a level
link_of(json_bytes, level) ==
    <<SCHEME>>
    \o rstrip_pad(urlsafe_b64encode(to_bytes4(Len(json_bytes))
                                    \o zlib_compress(json_bytes, level)))

\* encode_config
encode_config(config) == link_of(json_dumps_indent(config), -1)

\* AmneziaConfigGenerator._create_vpn_link with _compress_and_encode
_create_vpn_link(data) == link_of(json_dumps_compact(data), 8)

\* the letters of the keys and values of the documents examined
Letters == {97, 98}

Texts == UNION {[1..n -> Letters] : n \in 0..MaxText}

\* the keys of the documents examined: one letter each
Keys == {<<c>> : c \in Letters}

\* configuration documents: objects of up to MaxMembers members with
\* distinct keys, as lists of <<key, value>> in the order of insertion
Documents ==
    {d \in UNION {[1..n -> Keys \X Texts] : n \in 0..MaxMembers} :
        \A i, j \in 1..Len(d) : d[i][1] = d[j][1] => i = j}

InitCodec ==
    /\ server_config = {}
    /\ clients = {}
    /\ config_file = [exists |-> FALSE, content |-> <<>>]
    /\ iface = [up |-> FALSE, peers |-> {}]
    /\ iptables_rules = 0
    /\ minio = {}
    /\ next_peer = 0
    /\ next_server_key = 0
    /\ awg_server_endpoint = ""
    /\ row_delete_raised = FALSE
    /\ docker = DockerReady
    /\ host_files = NoFiles
    /\ _docker_client = 0
    /\ closes = <<>>
    /\ container_tmp = FALSE
    /\ pc = [p \in 1..NumProcs |-> "k_idle"]
    /\ local = [p \in 1..NumProcs |-> InitLocal]

\* the link loc.encoded_string has been made by op from loc.config
Made(p, op, config, link) ==
    /\ pc[p] = "k_idle"
    /\ Goto(p, "k_link", [local[p] EXCEPT !.op = op, !.config = config,
                                          !.sent = link, !.encoded_string = link])
    /\ UNCHANGED <<server_config, clients, config_file, iface, iptables_rules, minio,
                   next_peer, next_server_key, awg_server_endpoint, row_delete_raised,
                   docker, host_files, _docker_client, closes, container_tmp>>

\* a call of encode_config(config)
encode_config_call(p) ==
    \E config \in Documents : Made(p, "encode_config", config, encode_config(config))

\* a call of AmneziaConfigGenerator._create_vpn_link(data)
_create_vpn_link_call(p) ==
    \E data \in Documents : Made(p, "_create_vpn_link", data, _create_vpn_link(data))

\* the link reaches the decoder; text is what arrives
Received(p, from, text) ==
    /\ pc[p] = from
    /\ Goto(p, "k_received", [local[p] EXCEPT !.encoded_string = text])
    /\ UNCHANGED <<server_config, clients, config_file, iface, iptables_rules, minio,
                   next_peer, next_server_key, awg_server_endpoint, row_delete_raised,
                   docker, host_files, _docker_client, closes, container_tmp>>

\* the link arrives as it was made
link_delivered(p) == Received(p, "k_link", local[p].encoded_string)

\* the bytes a link carries
PayloadBytes(link) == urlsafe_b64decode(Repad(remove_scheme(link))).data

\* one byte of the payload is changed on the way
link_corrupted(p) ==
    \E i \in 1..Len(PayloadBytes(local[p].encoded_string)) :
        LET b == PayloadBytes(local[p].encoded_string)
        IN  Received(p, "k_link",
                     <<SCHEME>> \o rstrip_pad(urlsafe_b64encode(
                                      [b EXCEPT ![i] = (b[i] + 1) % 256])))

\* the last characters of the link are lost on the way
link_truncated(p) ==
    \E n \in 1..2 :
        /\ n < Len(local[p].encoded_string)
        /\ Received(p, "k_link",
                    SubSeq(local[p].encoded_string, 1, Len(local[p].encoded_string) - n))

\* a link whose payload is the JSON text of a document, not compressed and
\* without length field
link_of_plain_json(p) ==
    \E config \in Documents :
        Received(p, "k_idle",
                 <<SCHEME>> \o rstrip_pad(urlsafe_b64encode(json_dumps_compact(config))))

\* a call of decode_config(encoded_string)
decode_config_call(p) ==
    /\ pc[p] = "k_received"
    /\ LET decoded == decode_config(local[p].encoded_string)
       IN  Return(p, IF decoded.raised = "" THEN "ok" ELSE decoded.raised,
                  [local[p] EXCEPT !.decoded = decoded.config])
    /\ UNCHANGED <<server_config, clients, config_file, iface, iptables_rules, minio,
                   next_peer, next_server_key, awg_server_endpoint, row_delete_raised,
                   docker, host_files, _docker_client, closes, container_tmp>>

NextCodec ==
    \E p \in Procs :
        \/ encode_config_call(p)
        \/ _create_vpn_link_call(p)
        \/ link_delivered(p)
        \/ link_corrupted(p)
        \/ link_truncated(p)
        \/ link_of_plain_json(p)
        \/ decode_config_call(p)

SpecCodec == InitCodec /\ [][NextCodec]_vars

\* handler p decoded a link that an encoder made and that arrived unchanged
RoundTrip(p) ==
    /\ pc[p] = "done"
    /\ local[p].op \in {"encode_config", "_create_vpn_link"}
    /\ local[p].encoded_string = local[p].sent

\* C29: decoding a link made by encode_config or by _create_vpn_link returns
\* the document the link was made from, whatever the length of the payload
C29_DecodeInvertsEncode ==
    \A p \in Procs :
        RoundTrip(p) => local[p].result = "ok" /\ local[p].decoded = local[p].config

\* the number of "=" the base64 form of the payload of a link needs
PadsNeeded(link) == (4 - (Len(remove_scheme(link)) % 4)) % 4

\* a link of the generator whose base64 form needs one "=" was decoded
C29_Witness ==
    \E p \in Procs :
        /\ RoundTrip(p)
        /\ local[p].op = "_create_vpn_link"
        /\ Len(local[p].config) = MaxMembers
        /\ PadsNeeded(local[p].sent) = 1

\* likewise a link that needs two
C29_WitnessTwoPads ==
    \E p \in Procs :
        RoundTrip(p) /\ local[p].config # <<>> /\ PadsNeeded(local[p].sent) = 2

\* likewise a link of encode_config that needs none
C29_WitnessNoPad ==
    \E p \in Procs :
        /\ RoundTrip(p)
        /\ local[p].op = "encode_config"
        /\ local[p].config # <<>>
        /\ PadsNeeded(local[p].sent) = 0

\* the length field of the payload of a link, and what its rest decompresses to
EmbeddedLength(link) == from_bytes(Take(PayloadBytes(link), 4))

Decompressed(link) == zlib_decompress(Drop(PayloadBytes(link), 4))

\* the link an encoder made carries the length of its JSON text in the
\* first four bytes of the payload
HeaderIsJsonLength(p) ==
    /\ local[p].op = "encode_config"
       => EmbeddedLength(local[p].sent) = Len(json_dumps_indent(local[p].config))
    /\ local[p].op = "_create_vpn_link"
       => EmbeddedLength(local[p].sent) = Len(json_dumps_compact(local[p].config))

\* C30: a link made by an encoder carries in its first four bytes the length
\* of the JSON text, and decode_config returns a document only for a payload
\* that decompresses to as many bytes as its length field says: a payload
\* that does not decompress, or whose length field differs, is rejected
C30_OnlyLengthCheckedPayloadsAccepted ==
    \A p \in Procs :
        /\ HeaderIsJsonLength(p)
        /\ (pc[p] = "done" /\ local[p].result = "ok")
           => /\ Decompressed(local[p].encoded_string).raised = ""
              /\ Len(Decompressed(local[p].encoded_string).data)
                   = EmbeddedLength(local[p].encoded_string)

\* what holds: the length field of the encoders, the rejection of a payload
\* that decompresses to another length, and for a payload that does not
\* decompress the answer of the JSON parser on the payload as it is
C30_LengthMismatchRejected ==
    \A p \in Procs :
        /\ HeaderIsJsonLength(p)
        /\ pc[p] = "done"
           => LET link == local[p].encoded_string
              IN  /\ (/\ Decompressed(link).raised = ""
                      /\ Len(Decompressed(link).data) # EmbeddedLength(link))
                     => local[p].result = "ValueError"
                  /\ (Decompressed(link).raised # "" /\ local[p].result = "ok")
                     => /\ json_loads_text(PayloadBytes(link)).raised = ""
                        /\ local[p].decoded = json_loads_text(PayloadBytes(link)).config

\* a payload with a changed length field was rejected
C30_WitnessMismatch ==
    \E p \in Procs :
        /\ pc[p] = "done"
        /\ local[p].result = "ValueError"
        /\ Decompressed(local[p].encoded_string).raised = ""

\* ------------------------------------------------- the shared engine client
\* Handlers 1..NumConcurrent obtain the client through the dependencies
\* get_docker_service / get_host_service; process 0 is the lifespan of the
\* application, the only caller of close_docker_client.
Lifespan == 0

InitClient ==
    /\ server_config = {}
    /\ clients = {}
    /\ config_file = [exists |-> FALSE, content |-> <<>>]
    /\ iface = [up |-> FALSE, peers |-> {}]
    /\ iptables_rules = 0
    /\ minio = {}
    /\ next_peer = 0
    /\ next_server_key = 0
    /\ awg_server_endpoint = ""
    /\ row_delete_raised = FALSE
    /\ docker = DockerReady
    /\ host_files = NoFiles
    /\ _docker_client = 0
    /\ closes = <<>>
    /\ container_tmp = FALSE
    /\ pc = [p \in Lifespan..NumConcurrent |-> "g_idle"]
    /\ local = [p \in Lifespan..NumConcurrent |-> InitLocal]

\* the clients whose close() has returned and that the global no longer names
Retired == {i \in 1..Len(closes) : closes[i] > 0 /\ _docker_client # i}

\* variant of get_docker_client: a client is constructed at every call
get_docker_client_always_new(p) ==
    /\ pc[p] = "g_idle"
    /\ p # Lifespan
    /\ Len(closes) < MaxClients
    /\ _docker_client' = Len(closes) + 1
    /\ closes' = Append(closes, 0)
    /\ Return(p, "ok", [local[p] EXCEPT !.op = "get_docker_client",
                                        !.docker_client = Len(closes) + 1,
                                        !.epoch = Cardinality(Retired)])
    /\ UNCHANGED <<server_config, clients, config_file, iface, iptables_rules, minio,
                   next_peer, next_server_key, awg_server_endpoint, row_delete_raised,
                   docker, host_files, container_tmp>>

\* get_docker_client, lines 8-16: the global is returned, after a client has
\* been constructed and stored in it when it was None; the function does not
\* await, so it runs in one step
get_docker_client(p) ==
    /\ pc[p] = "g_idle"
    /\ p # Lifespan
    /\ _docker_client = 0 => Len(closes) < MaxClients
    /\ LET made == IF _docker_client = 0 THEN Len(closes) + 1 ELSE _docker_client
       IN  /\ _docker_client' = made
           /\ closes' = IF _docker_client = 0 THEN Append(closes, 0) ELSE closes
           /\ Return(p, "ok", [local[p] EXCEPT !.op = "get_docker_client",
                                               !.docker_client = made,
                                               !.epoch = Cardinality(Retired)])
    /\ UNCHANGED <<server_config, clients, config_file, iface, iptables_rules, minio,
                   next_peer, next_server_key, awg_server_endpoint, row_delete_raised,
                   docker, host_files, container_tmp>>

\* close_docker_client, lines 19-24: nothing when the global is None;
\* otherwise close() of the client is awaited
close_docker_client_close(p) ==
    /\ pc[p] = "g_idle"
    /\ p = Lifespan
    /\ IF _docker_client = 0
       THEN /\ Return(p, "ok", [local[p] EXCEPT !.op = "close_docker_client"])
            /\ UNCHANGED closes
       ELSE /\ closes' = [closes EXCEPT ![_docker_client] = @ + 1]
            /\ Goto(p, "g_closing", [local[p] EXCEPT !.op = "close_docker_client",
                                                     !.docker_client = _docker_client])
    /\ UNCHANGED <<server_config, clients, config_file, iface, iptables_rules, minio,
                   next_peer, next_server_key, awg_server_endpoint, row_delete_raised,
                   docker, host_files, _docker_client, container_tmp>>

\* close_docker_client, line 24: close() has returned, the global is set to
\* None
close_docker_client_reset(p) ==
    /\ pc[p] = "g_closing"
    /\ _docker_client' = 0
    /\ Return(p, "ok", local[p])
    /\ UNCHANGED <<server_config, clients, config_file, iface, iptables_rules, minio,
                   next_peer, next_server_key, awg_server_endpoint, row_delete_raised,
                   docker, host_files, closes, container_tmp>>

\* the caller has its answer and is free for the next call
client_call_returns(p) ==
    /\ pc[p] = "done"
    /\ Goto(p, "g_idle", InitLocal)
    /\ UNCHANGED <<server_config, clients, config_file, iface, iptables_rules, minio,
                   next_peer, next_server_key, awg_server_endpoint, row_delete_raised,
                   docker, host_files, _docker_client, closes, container_tmp>>

NextClient ==
    \E p \in Procs :
        \/ get_docker_client(p)
        \/ close_docker_client_close(p)
        \/ close_docker_client_reset(p)
        \/ client_call_returns(p)

SpecClient == InitClient /\ [][NextClient]_vars

\* the clients constructed and not closed
Unclosed == {i \in 1..Len(closes) : closes[i] = 0}

\* handler p holds the client a finished call of get_docker_client gave it
Holds(p) == Returned(p, "get_docker_client")

CleanupMessage(step) ==
    CASE step = "remove_client_peer" -> "Failed to remove AWG peer"
      [] step = "sync_config" -> "Failed to sync AWG config"
      [] step = "delete_config_awg" -> "Failed to delete AWG config from MinIO"
      [] step = "delete_config_amnezia" -> "Failed to delete AmneziaVPN config from MinIO"
      [] OTHER -> ""

\* the cleanup steps of the delete_client call of handler p that raised, in
\* the order they ran
FailedCleanup(p) ==
    SelectSeq(local[p].log, LAMBDA e : e[2] = "raise" /\ CleanupMessage(e[1]) # "")

C32_WitnessSkipped ==
    \E p \in Procs :
        /\ Returned(p, "delete")
        /\ local[p].result = "ok"
        /\ local[p].client.config_minio_key = <<>>
        /\ ~Logged(p, "delete_config_awg", "ok")

\* ------------------------------------- the interface commands, exec by exec
\* Handlers 1..NumConcurrent each call _ensure_interface_up or sync_config
\* once, in any interleaving of their awaits. Every exec_in_container may
\* raise the engine's error instead of running its command.

\* the texts a failing composite command leaves on stdout and on stderr
Captured == {"", "text"}

\* host_files.py 53-79: the exec raised DockerError before the command ran
exec_in_container_raises(p, step) ==
    Return(p, "HostServiceError", [local[p] EXCEPT !.log = Log(p, step, "raise")])

\* what "ip link show ... | grep -q 'state UP' && echo UP || echo DOWN" prints
check_status_cmd == IF iface.up THEN "UP" ELSE "DOWN"

\* what "awg-quick strip" leaves of the document: the peers it names
StrippedPeers ==
    {DocumentPeerKeys(config_file.content)[i] :
        i \in 1..Len(DocumentPeerKeys(config_file.content))}

InitInterface ==
    /\ server_config = {}
    /\ clients = {}
    /\ \E exists \in BOOLEAN :
         config_file = [exists |-> exists,
                        content |-> IF exists
                                    THEN AppendPeer(_build_server_config(
                                                        ServerPrivateKeyOf(1),
                                                        _get_server_ip(ConcurrentSubnet),
                                                        ToString(ConcurrentSubnet.plen),
                                                        ServerPort),
                                                    PublicKeyOf(1),
                                                    FirstPeerIp(ConcurrentSubnet), PskOf(1))
                                    ELSE <<>>]
    /\ \E up \in BOOLEAN : iface = [up |-> up, peers |-> {}]
    /\ iptables_rules = 0
    /\ minio = {}
    /\ next_peer = 1
    /\ next_server_key = 1
    /\ awg_server_endpoint = ""
    /\ row_delete_raised = FALSE
    /\ \E tun \in BOOLEAN :
         docker = [available |-> TRUE, image |-> TRUE, status |-> "running", tun |-> tun]
    /\ host_files = NoFiles
    /\ _docker_client = 0
    /\ closes = <<>>
    /\ container_tmp = FALSE
    /\ pc = [p \in 1..NumConcurrent |-> "idle"]
    /\ local = [p \in 1..NumConcurrent |-> InitLocal]

\* _ensure_interface_up, lines 168-176: the device node is tested first
_ensure_interface_up_check_tun(p) ==
    /\ pc[p] = "idle"
    /\ LET loc == [local[p] EXCEPT !.op = "_ensure_interface_up"]
       IN  \E ok \in BOOLEAN :
             IF ~ok
             THEN Return(p, "HostServiceError",
                         [loc EXCEPT !.log = Log(p, "check_tun", "raise")])
             ELSE LET tun_check == IF docker.tun THEN "OK" ELSE "MISSING"
                      seen == [loc EXCEPT !.tun_check = tun_check,
                                          !.log = Log(p, "check_tun", tun_check)]
                  IN  IF tun_check = "MISSING"
                      THEN Return(p, "AWGServiceError",
                                  [seen EXCEPT !.exc = "/dev/net/tun device is not available"])
                      ELSE Goto(p, "e_status", seen)
    /\ UNCHANGED <<server_config, clients, config_file, iface, iptables_rules, minio,
                   next_peer, next_server_key, awg_server_endpoint, row_delete_raised,
                   docker, host_files, _docker_client, closes, container_tmp>>

\* _ensure_interface_up, lines 177-185: nothing more is run when the
\* interface is reported up
_ensure_interface_up_check_status(p) ==
    /\ pc[p] = "e_status"
    /\ \E ok \in BOOLEAN :
         IF ~ok
         THEN exec_in_container_raises(p, "check_status")
         ELSE LET seen == [local[p] EXCEPT !.interface_status = check_status_cmd,
                                           !.log = Log(p, "check_status", check_status_cmd)]
              IN  IF check_status_cmd = "UP"
                  THEN Return(p, "ok", seen)
                  ELSE Goto(p, "e_down", seen)
    /\ UNCHANGED <<server_config, clients, config_file, iface, iptables_rules, minio,
                   next_peer, next_server_key, awg_server_endpoint, row_delete_raised,
                   docker, host_files, _docker_client, closes, container_tmp>>

\* _ensure_interface_up, lines 187-191: "awg-quick down ... || true", its
\* result not looked at
_ensure_interface_up_down(p) ==
    /\ pc[p] = "e_down"
    /\ \E ok \in BOOLEAN :
         IF ~ok
         THEN /\ exec_in_container_raises(p, "down")
              /\ UNCHANGED iface
         ELSE \E took_down \in BOOLEAN :
                /\ iface' = IF took_down /\ config_file.exists
                            THEN [up |-> FALSE, peers |-> {}] ELSE iface
                /\ Goto(p, "e_up", [local[p] EXCEPT !.log = Log(p, "down", "ran")])
    /\ UNCHANGED <<server_config, clients, config_file, iptables_rules, minio,
                   next_peer, next_server_key, awg_server_endpoint, row_delete_raised,
                   docker, host_files, _docker_client, closes, container_tmp>>

\* variant of _ensure_interface_up_up: a non-zero exit of "awg-quick up"
\* raises without the second look at the interface
_ensure_interface_up_up_no_recheck(p) ==
    /\ pc[p] = "e_up"
    /\ \E outcome \in {"raise", "zero", "nonzero"} :
         CASE outcome = "raise" ->
                /\ exec_in_container_raises(p, "up")
                /\ UNCHANGED iface
           [] outcome = "zero" ->
                /\ config_file.exists /\ ~iface.up
                /\ iface' = [up |-> TRUE, peers |-> StrippedPeers]
                /\ Return(p, "ok", [local[p] EXCEPT !.exit_code = 0,
                                                    !.log = Log(p, "up", "zero")])
           [] outcome = "nonzero" ->
                /\ UNCHANGED iface
                /\ Return(p, "ContainerNotRunningError",
                          [local[p] EXCEPT !.exit_code = 1,
                                           !.log = Log(p, "up", "nonzero")])
    /\ UNCHANGED <<server_config, clients, config_file, iptables_rules, minio,
                   next_peer, next_server_key, awg_server_endpoint, row_delete_raised,
                   docker, host_files, _docker_client, closes, container_tmp>>

\* _ensure_interface_up, lines 193-196: "awg-quick up" brings the interface
\* up with the peers of the document and exits 0, or exits non-zero and
\* leaves the interface as it is (no document, or the interface exists)
_ensure_interface_up_up(p) ==
    /\ pc[p] = "e_up"
    /\ \E outcome \in {"raise", "zero", "nonzero"} :
         CASE outcome = "raise" ->
                /\ exec_in_container_raises(p, "up")
                /\ UNCHANGED iface
           [] outcome = "zero" ->
                /\ config_file.exists /\ ~iface.up
                /\ iface' = [up |-> TRUE, peers |-> StrippedPeers]
                /\ Return(p, "ok", [local[p] EXCEPT !.exit_code = 0,
                                                    !.log = Log(p, "up", "zero")])
           [] outcome = "nonzero" ->
                /\ UNCHANGED iface
                /\ Goto(p, "e_recheck", [local[p] EXCEPT !.exit_code = 1,
                                                         !.log = Log(p, "up", "nonzero")])
    /\ UNCHANGED <<server_config, clients, config_file, iptables_rules, minio,
                   next_peer, next_server_key, awg_server_endpoint, row_delete_raised,
                   docker, host_files, _docker_client, closes, container_tmp>>

\* _ensure_interface_up, lines 198-210: the state is looked at again and the
\* call fails only if it is still down
_ensure_interface_up_recheck(p) ==
    /\ pc[p] = "e_recheck"
    /\ \E ok \in BOOLEAN :
         IF ~ok
         THEN exec_in_container_raises(p, "recheck")
         ELSE LET seen == [local[p] EXCEPT !.status_after = check_status_cmd,
                                           !.log = Log(p, "recheck", check_status_cmd)]
              IN  IF check_status_cmd = "UP"
                  THEN Return(p, "ok", seen)
                  ELSE Return(p, "ContainerNotRunningError", seen)
    /\ UNCHANGED <<server_config, clients, config_file, iface, iptables_rules, minio,
                   next_peer, next_server_key, awg_server_endpoint, row_delete_raised,
                   docker, host_files, _docker_client, closes, container_tmp>>

\* sync_config, lines 158-164: the message of the error raised for a non-zero
\* exit; empty captured texts are left out
sync_error_msg(exit_code, stdout, stderr) ==
    <<"syncconf failed. Exit code: ", ToString(exit_code)>>
    \o (IF stdout # "" THEN <<", stdout: ", stdout>> ELSE <<>>)
    \o (IF stderr # "" THEN <<", stderr: ", stderr>> ELSE <<>>)

\* sync_config, lines 149-164: one exec of "awg-quick strip cfg > tmp && awg
\* syncconf iface tmp && rm -f tmp". The redirection creates tmp before strip
\* runs; a command that fails ends the chain, so rm runs only after syncconf
\* succeeded. "inspect": the command ran to its end and the exec raised when
\* its exit code was read.
sync_config_exec(p) ==
    /\ pc[p] = "idle"
    /\ LET loc == [local[p] EXCEPT !.op = "sync_config"]
       IN  \E outcome \in {"raise", "strip", "syncconf", "zero", "inspect"} :
             CASE outcome = "raise" ->
                    /\ Return(p, "HostServiceError",
                              [loc EXCEPT !.log = Log(p, "sync_config", "raise")])
                    /\ UNCHANGED <<iface, container_tmp>>
               [] outcome \in {"strip", "syncconf"} ->
                    /\ outcome = "syncconf" => config_file.exists
                    /\ container_tmp' = TRUE
                    /\ UNCHANGED iface
                    /\ \E stdout \in Captured, stderr \in Captured :
                         Return(p, "AWGServiceError",
                                [loc EXCEPT !.exit_code = 1, !.stdout = stdout,
                                            !.stderr = stderr,
                                            !.error_msg = sync_error_msg(1, stdout, stderr),
                                            !.log = Log(p, "sync_config", outcome)])
               [] outcome \in {"zero", "inspect"} ->
                    /\ config_file.exists /\ iface.up
                    /\ container_tmp' = FALSE
                    /\ iface' = [iface EXCEPT !.peers = StrippedPeers]
                    /\ IF outcome = "zero"
                       THEN Return(p, "ok", [loc EXCEPT !.log = Log(p, "sync_config", "zero")])
                       ELSE Return(p, "HostServiceError",
                                   [loc EXCEPT !.log = Log(p, "sync_config", "inspect")])
    /\ UNCHANGED <<server_config, clients, config_file, iptables_rules, minio,
                   next_peer, next_server_key, awg_server_endpoint, row_delete_raised,
                   docker, host_files, _docker_client, closes>>

NextInterface ==
    \E p \in Procs :
        \/ _ensure_interface_up_check_tun(p)
        \/ _ensure_interface_up_check_status(p)
        \/ _ensure_interface_up_down(p)
        \/ _ensure_interface_up_up(p)
        \/ _ensure_interface_up_recheck(p)
        \/ sync_config_exec(p)

SpecInterface == InitInterface /\ [][NextInterface]_vars

\* the call of p ran the interface command step (down or up)
RanCommand(p, step) == \E i \in 1..Len(local[p].log) :
                          local[p].log[i][1] = step /\ local[p].log[i][2] # "raise"

\* C33: _ensure_interface_up fails with the device error when the device test
\* reports the node missing, having run no interface command; when the state
\* check reports the interface up it returns having run neither down nor up;
\* when it reports down, down is run and then up; and the call fails with
\* the interface-start error exactly when up exited non-zero and the second
\* state check reported the interface down
C33_EnsureInterfaceUp ==
    \A p \in Procs :
        local[p].op = "_ensure_interface_up"
        => /\ Logged(p, "check_tun", "MISSING")
              => /\ pc[p] = "done"
                 /\ local[p].result = "AWGServiceError"
                 /\ local[p].exc = "/dev/net/tun device is not available"
                 /\ Len(local[p].log) = 1
           /\ Logged(p, "check_status", "UP")
              => /\ pc[p] = "done" /\ local[p].result = "ok"
                 /\ ~RanCommand(p, "down") /\ ~RanCommand(p, "up")
           /\ RanCommand(p, "up")
              => LoggedBefore(p, "check_status", "DOWN", "down", "ran")
                 /\ \E i \in 1..Len(local[p].log) :
                       local[p].log[i] = <<"down", "ran">> /\ local[p].log[i + 1][1] = "up"
           /\ (Logged(p, "check_status", "DOWN") /\ pc[p] = "done"
                 /\ local[p].result # "HostServiceError")
              => RanCommand(p, "down") /\ RanCommand(p, "up")
           /\ (pc[p] = "done" /\ local[p].result = "ContainerNotRunningError")
              <=> (Logged(p, "up", "nonzero") /\ Logged(p, "recheck", "DOWN"))
           /\ (pc[p] = "done" /\ Logged(p, "up", "zero")) => local[p].result = "ok"

\* a call that found the interface down, ran down and up, saw up exit
\* non-zero, and returned because the second check reported the interface up
C33_Witness ==
    \E p \in Procs :
        /\ Returned(p, "_ensure_interface_up")
        /\ local[p].result = "ok"
        /\ LoggedBefore(p, "down", "ran", "up", "nonzero")
        /\ Logged(p, "recheck", "UP")

\* a call that failed with the interface-start error
C33_WitnessStartError ==
    \E p \in Procs :
        /\ Returned(p, "_ensure_interface_up")
        /\ local[p].result = "ContainerNotRunningError"
        /\ ~iface.up

\* a call that found the device node missing
C33_WitnessDevice ==
    \E p \in Procs :
        /\ Returned(p, "_ensure_interface_up")
        /\ ~docker.tun /\ local[p].result = "AWGServiceError"

\* a call that found the interface up
C33_WitnessAlreadyUp ==
    \E p \in Procs :
        /\ Returned(p, "_ensure_interface_up")
        /\ local[p].interface_status = "UP" /\ local[p].result = "ok"

\* a non-zero exit of the composite command raised the sync error, whose
\* message holds the exit code and every captured text that is not empty
SyncErrorCarriesOutput(p) ==
    local[p].exit_code # 0
    => /\ local[p].result = "AWGServiceError"
       /\ local[p].error_msg[2] = ToString(local[p].exit_code)
       /\ local[p].stdout # "" =>
             \E i \in 1..Len(local[p].error_msg) : local[p].error_msg[i] = local[p].stdout
       /\ local[p].stderr # "" =>
             \E i \in 1..Len(local[p].error_msg) : local[p].error_msg[i] = local[p].stderr

\* C34: once a sync_config call has returned or raised, the temporary
\* stripped copy does not exist in the container, and a non-zero exit of the
\* composite command has raised the sync error with the captured output
C34_SyncDiscardsTempCopy ==
    \A p \in Procs :
        Returned(p, "sync_config")
        => ~container_tmp /\ SyncErrorCarriesOutput(p)

\* the part of C34 that holds: the sync error and its output, and a sync
\* that returns leaves no temporary copy at its return
C34_SyncErrorAndCleanReturn ==
    /\ [](\A p \in Procs : Returned(p, "sync_config") => SyncErrorCarriesOutput(p))
    /\ [][\A p \in Procs :
             (pc[p] = "idle" /\ pc'[p] = "done" /\ local'[p].op = "sync_config"
                /\ local'[p].result = "ok")
             => ~container_tmp' /\ iface'.peers = StrippedPeers]_vars

\* a sync_config call raised the sync error with both texts captured
C34_WitnessError ==
    \E p \in Procs :
        /\ Returned(p, "sync_config")
        /\ local[p].result = "AWGServiceError"
        /\ local[p].stdout # "" /\ local[p].stderr # ""

\* every [Peer] section of document before is a section of document after
StanzasKept(before, after) ==
    \A i \in 1..Len(Stanzas(before)) :
        \E j \in 1..Len(Stanzas(after)) : Stanzas(after)[j] = Stanzas(before)[i]

C35_SetupKeepsRowsAndArtifacts ==
    [][\A p \in Procs :
          (local[p].op = "setup" /\ pc[p] # "idle")
          => /\ clients' = clients /\ minio' = minio
             /\ pc[p] # "s_write" => StanzasKept(config_file.content, config_file'.content)]_vars

\* a setup_server call that returned on a server that had a peer stanza
C35_WitnessSetupOverPeers ==
    \E p \in Procs :
        /\ Returned(p, "setup") /\ local[p].result = "ok"
        /\ Len(Stanzas(local[p].document0.content)) > 0
        /\ clients # {}

\* the value of the PrivateKey line of the [Interface] section of a document
HeaderPrivateKey(content) ==
    LET i == find(content, Assign("PrivateKey", <<>>))
    IN  IF i = 0 THEN <<>> ELSE <<content[i + Len(Assign("PrivateKey", <<>>))]>>

\* generate_server_keys, line 113: "wg pubkey" of a private key the server
\* has generated
wg_pubkey(private_key) ==
    IF \E n \in 1..next_server_key : ServerPrivateKeyOf(n) = private_key
    THEN ServerPublicKeyOf(CHOOSE n \in 1..next_server_key : ServerPrivateKeyOf(n) = private_key)
    ELSE <<>>

\* the public key of the row of table server_config belongs to the private
\* key of the live document
StoredKeyMatchesDocument ==
    ServerRow.server_public_key = wg_pubkey(HeaderPrivateKey(config_file.content))

C36_SuccessfulSetupMatches ==
    \A p \in Procs :
        (Returned(p, "setup") /\ local[p].result = "ok")
        => server_config # {} /\ StoredKeyMatchesDocument

\* a successful setup call
C36_WitnessSuccess ==
    \E p \in Procs :
        /\ Returned(p, "setup") /\ local[p].result = "ok"
        /\ HeaderPrivateKey(config_file.content) = ServerPrivateKeyOf(next_server_key)

\* a second setup call wrote its document and failed before it reached the
\* row of the first
C36_WitnessFailedAfterWrite ==
    \E p \in Procs :
        /\ SetupStepFailed(p)
        /\ Logged(p, "write_file", "ok")
        /\ local[p].before.server_config # {}
        /\ ~StoredKeyMatchesDocument

\* ------------------------------------------ stanza removal, keys as texts
\* The document functions applied to public keys that are texts of one to
\* MaxKeyLen characters, so that one key can be the beginning of another.
MaxKeyLen == 2
KeyChars == {"a", "b"}
TextKeys == UNION {[1..n -> KeyChars] : n \in 1..MaxKeyLen}

InitKeys ==
    /\ server_config = {}
    /\ clients = {}
    /\ config_file = [exists |-> FALSE, content |-> <<>>]
    /\ iface = [up |-> FALSE, peers |-> {}]
    /\ iptables_rules = 0
    /\ minio = {}
    /\ next_peer = 0
    /\ next_server_key = 0
    /\ awg_server_endpoint = ""
    /\ row_delete_raised = FALSE
    /\ docker = DockerReady
    /\ host_files = NoFiles
    /\ _docker_client = 0
    /\ closes = <<>>
    /\ container_tmp = FALSE
    /\ pc = [p \in 1..NumProcs |-> "keys"]
    /\ local = [p \in 1..NumProcs |->
                  [InitLocal EXCEPT !.content =
                       _build_server_config(ServerPrivateKeyOf(1),
                                            _get_server_ip(ConcurrentSubnet),
                                            ToString(ConcurrentSubnet.plen), ServerPort)]]

\* add_client_peer, lines 139-140, for a key that has no stanza
add_client_peer_text_key(p) ==
    /\ pc[p] = "keys"
    /\ Len(local[p].appended) < MaxStanzas
    /\ \E key \in TextKeys :
         /\ \A j \in 1..Len(local[p].appended) : local[p].appended[j].peer # key
         /\ Applied(p, "append", key,
                    AppendPeer(local[p].content, key,
                               int_to_ip(Len(local[p].appended) + 1), <<"psk">>),
                    Append(local[p].appended,
                           [peer |-> key, ip |-> int_to_ip(Len(local[p].appended) + 1)]))
    /\ UNCHANGED <<server_config, clients, config_file, iface, iptables_rules, minio,
                   next_peer, next_server_key, awg_server_endpoint, row_delete_raised,
                   docker, host_files, _docker_client, closes, container_tmp, pc>>

\* remove_client_peer, line 146, for any key
remove_client_peer_text_key(p) ==
    /\ pc[p] = "keys"
    /\ local[p].last[1] # "remove"
    /\ \E key \in TextKeys :
         Applied(p, "remove", key, _remove_peer_block(local[p].content, key),
                 SelectSeq(local[p].appended, LAMBDA e : e.peer # key))
    /\ UNCHANGED <<server_config, clients, config_file, iface, iptables_rules, minio,
                   next_peer, next_server_key, awg_server_endpoint, row_delete_raised,
                   docker, host_files, _docker_client, closes, container_tmp, pc>>

NextKeys == \E p \in Procs : add_client_peer_text_key(p) \/ remove_client_peer_text_key(p)

SpecKeys == InitKeys /\ [][NextKeys]_vars

\* the public key a stanza names: the text of its PublicKey line
StanzaKey(stanza) ==
    LET i == find(stanza, Assign("PublicKey", <<>>))
        rest == SubSeq(stanza, i + Len(Assign("PublicKey", <<>>)), Len(stanza))
        end == find(rest, <<NL>>)
    IN  IF end = 0 THEN rest ELSE SubSeq(rest, 1, end - 1)

\* C37: removing the stanza of key k1 leaves every stanza of another key in
\* the document, with its text and in the order it had, also when k1 is the
\* beginning of the other key
C37_RemovalKeepsOtherKeys ==
    \A p \in Procs :
        local[p].last[1] = "remove"
        => DocStanzas(local[p].content)
             = SelectSeq(DocStanzas(local[p].before),
                         LAMBDA stanza : StanzaKey(stanza) # local[p].last[2])

\* what holds of C37: the stanzas left are those whose key does not begin
\* with k1, unchanged and in order; the header is kept
C37_RemovalKeepsKeysNotPrefixed ==
    \A p \in Procs :
        local[p].last[1] = "remove"
        => /\ DocStanzas(local[p].content)
                = SelectSeq(DocStanzas(local[p].before),
                            LAMBDA stanza : ~startswith(StanzaKey(stanza), local[p].last[2]))
           /\ DocHeader(local[p].content) = DocHeader(local[p].before)

\* the stanza of a key was removed from a document that also held the stanza
\* of a key it is the beginning of
C37_WitnessPrefix ==
    \E p \in Procs :
        /\ local[p].last[1] = "remove"
        /\ \E i, j \in 1..Len(DocStanzas(local[p].before)) :
              /\ StanzaKey(DocStanzas(local[p].before)[i]) = local[p].last[2]
              /\ StanzaKey(DocStanzas(local[p].before)[j]) # local[p].last[2]
              /\ startswith(StanzaKey(DocStanzas(local[p].before)[j]), local[p].last[2])

\* the artifacts in the store that belong to the peer of the create_client
\* call of handler p
ArtifactsOf(p) ==
    {ConfigKey(local[p].client.id, kind) : kind \in {"_awg", "_amnezia"}} \cap minio

C38_NoArtifactWhenNoneUploadedOrBothDeleted ==
    \A p \in Procs :
        (Returned(p, "create") /\ local[p].result # "ok")
        => /\ ~Logged(p, "upload_awg", "ok") => ArtifactsOf(p) = {}
           /\ (Logged(p, "delete_config_awg", "ok") /\ Logged(p, "delete_config_amnezia", "ok"))
              => ArtifactsOf(p) = {}

\* a create_client call whose first upload returned and whose second upload
\* raised has ended
C38_WitnessSecondUploadFailed ==
    \E p \in Procs :
        /\ Returned(p, "create") /\ local[p].result # "ok"
        /\ Logged(p, "upload_awg", "ok") /\ Logged(p, "upload_amnezia", "raise")
        /\ ArtifactsOf(p) = {ConfigKey(local[p].client.id, "_awg")}

\* the last sync_config of the call of p returned: the peers of the
\* interface are those this successful sync applied
LastSyncSucceeded(p) ==
    \E i \in 1..Len(local[p].log) :
        /\ local[p].log[i] = <<"sync_config", "ok">>
        /\ \A j \in (i + 1)..Len(local[p].log) : local[p].log[j][1] # "sync_config"

\* the call of p is a create_client that failed or a delete_client that
\* returned, and its peer has a key and no PeerRecord
EndedWithoutRecord(p) ==
    /\ \/ Returned(p, "create") /\ local[p].result # "ok"
       \/ Returned(p, "delete")
    /\ local[p].client.client_public_key # <<>>
    /\ \A r \in clients : r.client_public_key # local[p].client.client_public_key

C39_GoneWhenRemovalAndSyncReturn ==
    \A p \in Procs :
        (/\ EndedWithoutRecord(p)
         /\ LastSyncSucceeded(p)
         /\ LoggedBefore(p, "remove_client_peer", "ok", "sync_config", "ok")
         /\ ~Logged(p, "remove_client_peer", "raise"))
        => local[p].client.client_public_key \notin iface.peers

\* a delete_client call whose stanza removal raised and whose sync returned
\* has deleted the row: the peer is on the interface without a PeerRecord
C39_WitnessDelete ==
    \E p \in Procs :
        /\ Returned(p, "delete") /\ EndedWithoutRecord(p)
        /\ Logged(p, "remove_client_peer", "raise")
        /\ Logged(p, "sync_config", "ok")
        /\ local[p].client.client_public_key \in iface.peers

\* a create_client call failed at an upload, its rollback of the stanza
\* raised, and the sync of the handler returned
C39_WitnessCreate ==
    \E p \in Procs :
        /\ Returned(p, "create") /\ EndedWithoutRecord(p)
        /\ local[p].handler = 3
        /\ LastSyncSucceeded(p)
        /\ local[p].client.client_public_key \in iface.peers

\* the call of c is a create_client that returned its row, and the call of d
\* is a delete_client of that row, started after the create had returned (it
\* found the artifact reference in the row) and returned without error
CreatedThenDeleted(c, d) ==
    /\ Returned(c, "create") /\ local[c].result = "ok"
    /\ Returned(d, "delete") /\ local[d].result = "ok"
    /\ local[d].client = local[c].client
    /\ local[d].client.config_minio_key # <<>>

\* the rows the table held before the create_client call of c: those of the
\* stanzas of the document the call found
RowsBefore(c) ==
    {r \in {[id |-> 1, client_public_key |-> PublicKeyOf(1),
             client_ip |-> FirstPeerIp(ConcurrentSubnet),
             config_minio_key |-> ConfigKey(1, "_awg")]} :
        StanzaCount(local[c].document0.content, r.client_public_key) = 1}

C40_WitnessFirstPeer ==
    \E c, d \in Procs :
        /\ CreatedThenDeleted(c, d)
        /\ RowsBefore(c) = {}
        /\ config_file.content # local[d].document0.content

====
